---- MODULE Spec2Model ----
(***************************************************************************)
(* seatwatch: the per-day, per-cabin aggregation driver of                 *)
(* src/seats_watch.py (find_direct_flight_max_bookable_seats_by_cabin),    *)
(* with the offer classifier and the tightness scorer it calls.            *)
(*                                                                         *)
(* Encoding of Python values                                               *)
(*   - Optional[T]: None is <<>>, a present value v is <<v>>.              *)
(*   - str that is concatenated or ordered (carrier codes, flight numbers, *)
(*     timestamps): the sequence of its code points, so that f-string      *)
(*     concatenation is \o and str comparison is lexicographic on code     *)
(*     points.  Strings only compared for equality (cabin names, labels,   *)
(*     display names) are TLA+ strings.                                    *)
(*   - a JSON scalar read through int(): [t, v] with t one of "int",       *)
(*     "numstr" (a numeric string such as "5"), "str" (a string int()      *)
(*     rejects) and "null".                                                *)
(*   - dt.date: the number of days since the first modelled date.          *)
(*   - float seconds of the backoff: whole seconds.                        *)
(***************************************************************************)
EXTENDS Integers, Sequences, FiniteSets, TLC

None == <<>>
Some(v) == <<v>>

\* ---------------------------------------------------------------------
\* Bounds of the model
\* ---------------------------------------------------------------------
\* last modelled date (dates are 0..MaxDay)
MaxDay == 1
\* largest value of the retries parameter
MaxRetries == 2
\* offers returned per day, all four responses together (driver runs)
MaxOffers == 1
\* offers returned per day, all four responses together (aggregation runs)
MaxAggOffers == 3
\* offers returned per day, all four responses together (seatmap runs)
MaxSeatOffers == 2

\* offers returned per day, all four responses together (ordering runs)
MaxSortOffers == 2

\* largest integer seat count of the scorer runs
MaxSeats == 10

\* the default of the retries parameter
DefaultRetries == 5

\* ---------------------------------------------------------------------
\* Strings as code points
\* ---------------------------------------------------------------------
s_AA == <<65, 65>>
s_A == <<65>>
s_BA == <<66, 65>>
s_100 == <<49, 48, 48>>
s_A100 == <<65, 49, 48, 48>>
s_200 == <<50, 48, 48>>
\* "1T08:00", "1T09:30"
s_dep0800 == <<49, 84, 48, 56, 58, 48, 48>>
s_dep0930 == <<49, 84, 48, 57, 58, 51, 48>>

\* str < str of Python: lexicographic on code points
RECURSIVE StrLess(_, _)
StrLess(a, b) ==
    IF b = <<>> THEN FALSE
    ELSE IF a = <<>> THEN TRUE
    ELSE IF a[1] # b[1] THEN a[1] < b[1]
    ELSE StrLess(Tail(a), Tail(b))

\* ---------------------------------------------------------------------
\* JSON scalars and int()
\* ---------------------------------------------------------------------
JNull == [t |-> "null", v |-> 0]
JInt(n) == [t |-> "int", v |-> n]
JNumStr(n) == [t |-> "numstr", v |-> n]
JStr == [t |-> "str", v |-> 0]

\* try: int(v) except: None   (v is not None)
int_or_none(j) ==
    IF j.t \in {"int", "numstr"} THEN Some(j.v) ELSE None

SeqToSet(s) == {s[i] : i \in 1..Len(s)}

Min(S) == CHOOSE x \in S : \A y \in S : x <= y
Max(S) == CHOOSE x \in S : \A y \in S : x >= y

\* ---------------------------------------------------------------------
\* Offers
\*   segment: [operating, carrierCode, number, at], each Optional[str]
\*            (operating is operating.carrierCode, at is departure.at)
\*   offer:   [itineraries: list of segment lists,
\*             numberOfBookableSeats: JSON scalar,
\*             fareDetails: travelerPricings[].fareDetailsBySegment[] entries,
\*                          each [cabin: Optional[str], numberOfBookableSeats]]
\* ---------------------------------------------------------------------
Seg(op, cc, num, at) ==
    [operating |-> op, carrierCode |-> cc, number |-> num, at |-> at]

Offer(its, seats, fds) ==
    [itineraries |-> its, numberOfBookableSeats |-> seats, fareDetails |-> fds]

FD(cabin, seats) == [cabin |-> cabin, numberOfBookableSeats |-> seats]

\* bool(x) of an Optional[str]
Truthy(o) == o # None /\ o[1] # <<>>

\* a variant of _CABINS with two cabins exchanged
_CABINS_swapped == <<"ECONOMY", "BUSINESS", "PREMIUM_ECONOMY", "FIRST">>

_CABINS == <<"ECONOMY", "PREMIUM_ECONOMY", "BUSINESS", "FIRST">>

\* ---------------------------------------------------------------------
\* Tightness scorer
\* ---------------------------------------------------------------------
\* a variant of walk_values that takes a null for a count of 0
walk_values_null_as_zero(offer) ==
    LET tops == offer.numberOfBookableSeats
        js == {tops} \cup {offer.fareDetails[i].numberOfBookableSeats :
                              i \in 1..Len(offer.fareDetails)}
    IN {j.v : j \in {x \in js : x.t = "null" \/ int_or_none(x) # None}}

\* a variant of walk_values that does not descend below the top level
walk_values_top_only(offer) ==
    LET tops == offer.numberOfBookableSeats
    IN {j.v : j \in {x \in {tops} : x.t # "null" /\ int_or_none(x) # None}}

\* walk(): int(v) of every non-null numberOfBookableSeats found in the record
walk_values(offer) ==
    LET tops == offer.numberOfBookableSeats
        js == {tops} \cup {offer.fareDetails[i].numberOfBookableSeats :
                              i \in 1..Len(offer.fareDetails)}
    IN {j.v : j \in {x \in js : x.t # "null" /\ int_or_none(x) # None}}

clamp_min_bookable(raw_min) == IF raw_min >= 9 THEN 9 ELSE raw_min

\* a variant of tightness_score with a slope of 10 instead of 12
tightness_score_slope_10(min_bookable) ==
    IF 1 <= min_bookable /\ min_bookable <= 8 THEN 100 - (min_bookable - 1) * 10
    ELSE IF min_bookable = 9 THEN 10
    ELSE 0

\* a variant of tightness_score that gives 9 seats a score of 20
tightness_score_nine_as_20(min_bookable) ==
    IF 1 <= min_bookable /\ min_bookable <= 8 THEN 100 - (min_bookable - 1) * 12
    ELSE IF min_bookable = 9 THEN 20
    ELSE 0

tightness_score(min_bookable) ==
    IF 1 <= min_bookable /\ min_bookable <= 8 THEN 100 - (min_bookable - 1) * 12
    ELSE IF min_bookable = 9 THEN 10
    ELSE 0

\* a variant of tightness_label that takes non-positive counts for loose ones
tightness_label_positive_only(min_bookable) ==
    IF 1 <= min_bookable /\ min_bookable <= 3 THEN "VERY TIGHT"
    ELSE IF 4 <= min_bookable /\ min_bookable <= 6 THEN "TIGHT"
    ELSE IF 7 <= min_bookable /\ min_bookable <= 8 THEN "MODERATE"
    ELSE "UNKNOWN/LOOSE"

tightness_label(min_bookable) ==
    IF min_bookable <= 3 THEN "VERY TIGHT"
    ELSE IF 4 <= min_bookable /\ min_bookable <= 6 THEN "TIGHT"
    ELSE IF 7 <= min_bookable /\ min_bookable <= 8 THEN "MODERATE"
    ELSE "UNKNOWN/LOOSE"

compute_tightness(offer) ==
    LET values == walk_values(offer) IN
    IF values = {} THEN
        [min_bookable |-> None, score |-> 0, label |-> "NO DATA"]
    ELSE
        LET min_bookable == clamp_min_bookable(Min(values)) IN
        [min_bookable |-> Some(min_bookable),
         score |-> tightness_score(min_bookable),
         label |-> tightness_label(min_bookable)]

\* ---------------------------------------------------------------------
\* Offer classifier
\* ---------------------------------------------------------------------
\* mutant of _is_direct_offer: only the first itinerary is looked at
_is_direct_offer_first_only(offer) ==
    /\ offer.itineraries # <<>>
    /\ Len(offer.itineraries[1]) = 1

_is_direct_offer(offer) ==
    /\ offer.itineraries # <<>>
    /\ \A i \in 1..Len(offer.itineraries) : Len(offer.itineraries[i]) = 1

\* the first itinerary's segment list, <<>> when there is none
first_segments(offer) ==
    IF offer.itineraries = <<>> THEN <<>> ELSE offer.itineraries[1]

\* a variant of _offer_operating_carrier_code that falls back on "??" when the
\* segment names no carrier
_offer_operating_carrier_code_or_unknown(offer) ==
    LET segments == first_segments(offer) IN
    IF segments = <<>> THEN None
    ELSE IF Truthy(segments[1].operating) THEN segments[1].operating
    ELSE IF Truthy(segments[1].carrierCode) THEN segments[1].carrierCode
    ELSE Some(<<63, 63>>)

_offer_operating_carrier_code(offer) ==
    LET segments == first_segments(offer) IN
    IF segments = <<>> THEN None
    ELSE IF Truthy(segments[1].operating) THEN segments[1].operating
    ELSE IF Truthy(segments[1].carrierCode) THEN segments[1].carrierCode
    ELSE None

\* a variant of _offer_cabins that finds no cabin in any fare detail
_offer_cabins_none(offer) == {}

_offer_cabins(offer) ==
    {offer.fareDetails[i].cabin[1] :
        i \in {j \in 1..Len(offer.fareDetails) : offer.fareDetails[j].cabin # None}}

\* a variant of offer_accepted without the cabin test of lines 591-593
offer_accepted_any_cabin(offer, cabin) ==
    /\ first_segments(offer) # <<>>
    /\ _is_direct_offer(offer)
    /\ _offer_operating_carrier_code(offer) # None
    /\ first_segments(offer)[1].number # None
    /\ Truthy(first_segments(offer)[1].at)

\* lines 546-593: the offer passes every `continue` of the merge loop
offer_accepted(offer, cabin) ==
    /\ first_segments(offer) # <<>>
    /\ _is_direct_offer(offer)
    /\ _offer_operating_carrier_code(offer) # None
    /\ first_segments(offer)[1].number # None
    /\ Truthy(first_segments(offer)[1].at)
    /\ (_offer_cabins(offer) = {} \/ cabin \in _offer_cabins(offer))

flight_id_of(offer) ==
    _offer_operating_carrier_code(offer)[1] \o first_segments(offer)[1].number[1]

\* key = (operating_code, f"{flight_id}@{departure_at}")
offer_key(offer) ==
    <<_offer_operating_carrier_code(offer)[1],
      flight_id_of(offer) \o <<64>> \o first_segments(offer)[1].at[1]>>

seats_int_of(offer) ==
    IF offer.numberOfBookableSeats.t = "null" THEN None
    ELSE int_or_none(offer.numberOfBookableSeats)

\* first index of code point c in s, 0 when absent
RECURSIVE IndexOf(_, _, _)
IndexOf(s, c, i) ==
    IF i > Len(s) THEN 0 ELSE IF s[i] = c THEN i ELSE IndexOf(s, c, i + 1)

_departure_time_hhmm(departure_at) ==
    LET p == IndexOf(departure_at, 84, 1) IN
    IF p = 0 THEN departure_at
    ELSE LET t == SubSeq(departure_at, p + 1, Len(departure_at)) IN
         IF Len(t) >= 5 THEN SubSeq(t, 1, 5) ELSE t

\* carriers_for_day.get(operating_code, operating_code)
dict_get(d, code) == IF code \in DOMAIN d THEN d[code] ELSE code

\* _carriers_dictionary: the payload's carriers without empty codes and names
_carriers_dictionary(carriers) ==
    LET keep == {k \in DOMAIN carriers : k # <<>> /\ carriers[k] # <<>>}
    IN [k \in keep |-> carriers[k]]

\* dict.update
dict_update(d, e) ==
    [k \in DOMAIN d \cup DOMAIN e |-> IF k \in DOMAIN e THEN e[k] ELSE d[k]]

\* ---------------------------------------------------------------------
\* Flight rows.  per_flight is the insertion-ordered dict of the day:
\* a sequence of [key, row] entries with distinct keys.
\* ---------------------------------------------------------------------
new_row(day, carriers, offer) ==
    LET operating_code == _offer_operating_carrier_code(offer)[1]
        departure_at == first_segments(offer)[1].at[1]
    IN [date |-> day,
        airlineCode |-> operating_code,
        airline |-> dict_get(carriers, operating_code),
        flight |-> flight_id_of(offer),
        departureAt |-> departure_at,
        departureTime |-> _departure_time_hhmm(departure_at),
        economyMax |-> None,
        premiumEconomyMax |-> None,
        businessMax |-> None,
        firstMax |-> None,
        economySeen |-> FALSE,
        premiumEconomySeen |-> FALSE,
        businessSeen |-> FALSE,
        firstSeen |-> FALSE,
        seatmapSeen |-> FALSE,
        tightnessSeen |-> FALSE,
        tightnessMinBookable |-> None,
        tightnessScore |-> None,
        tightnessLabel |-> None]

\* a variant of upd in which the first integer seat count is kept
upd_first_wins(row, max_key, seen_key, seats_int) ==
    LET seen == [row EXCEPT ![seen_key] = TRUE] IN
    IF seats_int = None THEN seen
    ELSE IF seen[max_key] = None THEN [seen EXCEPT ![max_key] = seats_int]
         ELSE seen

\* mutant of upd: the comparison with the current maximum is dropped
upd_last_wins(row, max_key, seen_key, seats_int) ==
    LET seen == [row EXCEPT ![seen_key] = TRUE] IN
    IF seats_int = None THEN seen ELSE [seen EXCEPT ![max_key] = seats_int]

\* mutant of upd: the seen flag is set only on the early return
upd_no_seen(row, max_key, seen_key, seats_int) ==
    IF seats_int = None THEN [row EXCEPT ![seen_key] = TRUE]
    ELSE IF row[max_key] = None \/ seats_int[1] > row[max_key][1]
         THEN [row EXCEPT ![max_key] = seats_int]
         ELSE row

\* mutant of upd: the seats are added to the current value
upd_adds_up(row, max_key, seen_key, seats_int) ==
    LET seen == [row EXCEPT ![seen_key] = TRUE] IN
    IF seats_int = None THEN seen
    ELSE IF seen[max_key] = None THEN [seen EXCEPT ![max_key] = seats_int]
         ELSE [seen EXCEPT ![max_key] = Some(@[1] + seats_int[1])]

\* upd(max_key, seen_key) of the merge loop, on the row and seats_int it closes over
upd(row, max_key, seen_key, seats_int) ==
    LET seen == [row EXCEPT ![seen_key] = TRUE] IN
    IF seats_int = None THEN seen
    ELSE IF seen[max_key] = None \/ seats_int[1] > seen[max_key][1]
         THEN [seen EXCEPT ![max_key] = seats_int]
         ELSE seen

\* mutant of upd_cabin: the FIRST branch is handed the business keys
upd_cabin_first_as_business(row, cabin, seats_int) ==
    IF cabin = "ECONOMY" THEN upd(row, "economyMax", "economySeen", seats_int)
    ELSE IF cabin = "PREMIUM_ECONOMY"
        THEN upd(row, "premiumEconomyMax", "premiumEconomySeen", seats_int)
    ELSE IF cabin = "BUSINESS" THEN upd(row, "businessMax", "businessSeen", seats_int)
    ELSE IF cabin = "FIRST" THEN upd(row, "businessMax", "businessSeen", seats_int)
    ELSE row

\* a variant of upd_cabin without the FIRST branch
upd_cabin_no_first(row, cabin, seats_int) ==
    IF cabin = "ECONOMY" THEN upd(row, "economyMax", "economySeen", seats_int)
    ELSE IF cabin = "PREMIUM_ECONOMY"
        THEN upd(row, "premiumEconomyMax", "premiumEconomySeen", seats_int)
    ELSE IF cabin = "BUSINESS" THEN upd(row, "businessMax", "businessSeen", seats_int)
    ELSE row

\* lines 639-646: the cabin dispatch
upd_cabin(row, cabin, seats_int) ==
    IF cabin = "ECONOMY" THEN upd(row, "economyMax", "economySeen", seats_int)
    ELSE IF cabin = "PREMIUM_ECONOMY"
        THEN upd(row, "premiumEconomyMax", "premiumEconomySeen", seats_int)
    ELSE IF cabin = "BUSINESS" THEN upd(row, "businessMax", "businessSeen", seats_int)
    ELSE IF cabin = "FIRST" THEN upd(row, "firstMax", "firstSeen", seats_int)
    ELSE row

\* mutant of upd_tightness: a smaller minimum replaces the minimum alone
upd_tightness_min_only(row, offer) ==
    LET t == compute_tightness(offer)
        mb == t.min_bookable
        cur_mb == row.tightnessMinBookable
    IN IF mb # None THEN
           IF cur_mb = None
           THEN [row EXCEPT !.tightnessMinBookable = mb,
                            !.tightnessScore = Some(t.score),
                            !.tightnessLabel = Some(t.label),
                            !.tightnessSeen = TRUE]
           ELSE IF mb[1] < cur_mb[1]
           THEN [row EXCEPT !.tightnessMinBookable = mb]
           ELSE row
       ELSE IF ~row.tightnessSeen
           THEN [row EXCEPT !.tightnessSeen = TRUE,
                            !.tightnessMinBookable = None,
                            !.tightnessScore = Some(0),
                            !.tightnessLabel = Some("NO DATA")]
           ELSE row

\* a variant of upd_tightness in which an offer without a numeric min_bookable
\* always records "NO DATA"
upd_tightness_no_data_overwrites(row, offer) ==
    LET t == compute_tightness(offer)
        mb == t.min_bookable
        cur_mb == row.tightnessMinBookable
    IN IF mb # None THEN
           IF cur_mb = None \/ mb[1] < cur_mb[1]
           THEN [row EXCEPT !.tightnessMinBookable = mb,
                            !.tightnessScore = Some(t.score),
                            !.tightnessLabel = Some(t.label),
                            !.tightnessSeen = TRUE]
           ELSE row
       ELSE [row EXCEPT !.tightnessSeen = TRUE,
                        !.tightnessMinBookable = None,
                        !.tightnessScore = Some(0),
                        !.tightnessLabel = Some("NO DATA")]

\* a variant of upd_tightness in which the first numeric result is kept
upd_tightness_first_wins(row, offer) ==
    LET t == compute_tightness(offer)
        mb == t.min_bookable
        cur_mb == row.tightnessMinBookable
    IN IF mb # None THEN
           IF cur_mb = None
           THEN [row EXCEPT !.tightnessMinBookable = mb,
                            !.tightnessScore = Some(t.score),
                            !.tightnessLabel = Some(t.label),
                            !.tightnessSeen = TRUE]
           ELSE row
       ELSE IF ~row.tightnessSeen
           THEN [row EXCEPT !.tightnessSeen = TRUE,
                            !.tightnessMinBookable = None,
                            !.tightnessScore = Some(0),
                            !.tightnessLabel = Some("NO DATA")]
           ELSE row

\* lines 648-663
upd_tightness(row, offer) ==
    LET t == compute_tightness(offer)
        mb == t.min_bookable
        cur_mb == row.tightnessMinBookable
    IN IF mb # None THEN
           IF cur_mb = None \/ mb[1] < cur_mb[1]
           THEN [row EXCEPT !.tightnessMinBookable = mb,
                            !.tightnessScore = Some(t.score),
                            !.tightnessLabel = Some(t.label),
                            !.tightnessSeen = TRUE]
           ELSE row
       ELSE IF ~row.tightnessSeen
           THEN [row EXCEPT !.tightnessSeen = TRUE,
                            !.tightnessMinBookable = None,
                            !.tightnessScore = Some(0),
                            !.tightnessLabel = Some("NO DATA")]
           ELSE row

\* mutant of pf_index: only the most recent entry is looked at
pf_index_last_only(pf, key) ==
    IF pf # <<>> /\ pf[Len(pf)].key = key THEN Len(pf) ELSE 0

\* per_flight.get(key): the index of the entry, 0 when absent
pf_index(pf, key) ==
    IF \E i \in 1..Len(pf) : pf[i].key = key
    THEN CHOOSE i \in 1..Len(pf) : pf[i].key = key
    ELSE 0

\* a variant of row_for in which an existing row keeps the name it was created with
row_for_keeps_name(pf, carriers, day, offer) ==
    LET i == pf_index(pf, offer_key(offer)) IN
    IF i = 0 THEN new_row(day, carriers, offer)
    ELSE pf[i].row

\* lines 603-629: the row the offer updates, created or with its name refreshed
row_for(pf, carriers, day, offer) ==
    LET i == pf_index(pf, offer_key(offer)) IN
    IF i = 0 THEN new_row(day, carriers, offer)
    ELSE [pf[i].row EXCEPT
            !.airline = dict_get(carriers, _offer_operating_carrier_code(offer)[1])]

\* one iteration of `for offer in offers` (lines 542-663)
merge_offer(pf, carriers, day, cabin, offer, tight) ==
    IF ~offer_accepted(offer, cabin) THEN pf
    ELSE
        LET key == offer_key(offer)
            i == pf_index(pf, key)
            r1 == upd_cabin(row_for(pf, carriers, day, offer), cabin, seats_int_of(offer))
            r2 == IF tight THEN upd_tightness(r1, offer) ELSE r1
        IN IF i = 0 THEN Append(pf, [key |-> key, row |-> r2])
           ELSE [pf EXCEPT ![i] = [key |-> key, row |-> r2]]

\* the sort key of line 704 and its tuple comparison
sort_key_less(a, b) ==
    \/ StrLess(a.airlineCode, b.airlineCode)
    \/ a.airlineCode = b.airlineCode /\ StrLess(a.departureAt, b.departureAt)

\* sorted() is stable: a row goes before the first row strictly greater than it
\* a variant of insert_sorted that keeps the insertion order of the map
insert_sorted_at_end(sorted, r) == Append(sorted, r)

RECURSIVE insert_sorted(_, _)
insert_sorted(sorted, r) ==
    IF sorted = <<>> THEN <<r>>
    ELSE IF sort_key_less(r, Head(sorted)) THEN <<r>> \o sorted
    ELSE <<Head(sorted)>> \o insert_sorted(Tail(sorted), r)

RECURSIVE sorted_rows(_, _)
sorted_rows(pf, acc) ==
    IF pf = <<>> THEN acc
    ELSE sorted_rows(Tail(pf), insert_sorted(acc, Head(pf).row))

\* mutant of caller_receives: the rows built so far are handed over on a failure too
caller_receives_partial(outcome, rws) == Some(rws)

\* what the caller is handed: the list of line 712, nothing when the driver raises
caller_receives(outcome, rws) == IF outcome = "returned" THEN Some(rws) ELSE None

\* the `time.sleep(backoff)` schedule, line 700
next_backoff(backoff) == IF backoff * 2 < 16 THEN backoff * 2 ELSE 16

\* mutants of should_retry: one retry too few, one too many, any status retried
should_retry_one_less(status, attempt, n_retries) ==
    status = Some(429) /\ attempt < n_retries - 1
should_retry_one_more(status, attempt, n_retries) ==
    status = Some(429) /\ attempt <= n_retries
should_retry_any_status(status, attempt, n_retries) == attempt < n_retries

\* line 698: a rate-limit response with attempts left
should_retry(status, attempt, n_retries) == status = Some(429) /\ attempt < n_retries

\* ---------------------------------------------------------------------
\* The responses the search may return
\* ---------------------------------------------------------------------
s_Am == <<65, 109>>
s_Br == <<66, 114>>

seg_AA100 == Seg(None, Some(s_AA), Some(s_100), Some(s_dep0800))
seg_BA200 == Seg(Some(s_BA), Some(s_AA), Some(s_200), Some(s_dep0930))

\* AA100 at 08:00, 5 seats / 3 seats, no cabin declared
oA5 == Offer(<< <<seg_AA100>> >>, JInt(5), <<>>)
oA3 == Offer(<< <<seg_AA100>> >>, JInt(3), <<>>)
\* AA100, 7 seats at the top, 2 seats nested in an ECONOMY fare detail
oA7n2 == Offer(<< <<seg_AA100>> >>, JInt(7), <<FD(Some("ECONOMY"), JInt(2))>>)
\* AA100 with no seat count anywhere
oA0 == Offer(<< <<seg_AA100>> >>, JNull, <<>>)
\* BA200 (operated by BA, marketed by AA) at 09:30, "9" seats, BUSINESS fare
oB9 == Offer(<< <<seg_BA200>> >>, JNumStr(9), <<FD(Some("BUSINESS"), JNull)>>)
\* AA100 then BA200 in one itinerary: a connection
oConn == Offer(<< <<seg_AA100, seg_BA200>> >>, JInt(1), <<>>)
\* a direct outbound and a connecting return
oMixed == Offer(<< <<seg_BA200>>, <<seg_AA100, seg_BA200>> >>, JInt(1), <<>>)
\* no itinerary at all
oNoItin == Offer(<<>>, JInt(4), <<>>)
\* an itinerary without segments, then a direct one
oNoSeg == Offer(<< <<>>, <<seg_AA100>> >>, JInt(6), <<>>)

\* AA200 at 09:30 and BA100 (operated by BA) at 08:00
oA200late == Offer(<< <<Seg(None, Some(s_AA), Some(s_200), Some(s_dep0930))>> >>,
                   JInt(6), <<>>)
oB100early == Offer(<< <<Seg(Some(s_BA), Some(s_AA), Some(s_100), Some(s_dep0800))>> >>,
                    JInt(4), <<>>)

\* AA100 with every combination of a top-level and nested seat counts
TopSeats == {JNull, JStr, JNumStr(9)} \cup {JInt(n) : n \in -1..MaxSeats}
NestedSeats ==
    { <<>>,
      <<FD(None, JNull)>>,
      <<FD(None, JStr)>>,
      <<FD(None, JInt(1))>>,
      <<FD(None, JInt(MaxSeats)), FD(None, JInt(8))>>,
      <<FD(None, JNumStr(MaxSeats + 1)), FD(None, JNull)>> }
ScoreOffers == {Offer(<< <<seg_AA100>> >>, t, n) : t \in TopSeats, n \in NestedSeats}

\* AA100 with every integer seat count at the top level and nothing nested
LabelOffers == {Offer(<< <<seg_AA100>> >>, JInt(n), <<>>) : n \in -1..MaxSeats}

\* AA100 without any carrier code (the own code an empty string), without a
\* flight number, without a departure timestamp
oNoCode == Offer(<< <<Seg(None, Some(<<>>), Some(s_100), Some(s_dep0800))>> >>,
                 JInt(4), <<>>)
oNoNumber == Offer(<< <<Seg(None, Some(s_AA), None, Some(s_dep0800))>> >>,
                   JInt(4), <<>>)
oNoDeparture == Offer(<< <<Seg(None, Some(s_AA), Some(s_100), None)>> >>,
                      JInt(4), <<>>)
KeyOffers == {oA5, oNoCode, oNoNumber, oNoDeparture}

DriverOffers == {oA5, oB9}
SortOffers == {oA5, oA200late, oB100early}
AggOffers == {oA5, oA3, oA7n2, oA0, oB9}
DirectOffers == {oA5, oConn, oMixed, oNoItin, oNoSeg}

carriers_AA == (s_AA :> s_Am)
carriers_BA == (s_AA :> s_Am) @@ (s_BA :> s_Br)
\* a response whose dictionary names the airline with an empty string
carriers_none == (s_AA :> <<>>)

DriverCarriers == {carriers_AA}
AggCarriers == {carriers_BA}

\* sequences over S of length at most n
RECURSIVE SeqsUpTo(_, _)
SeqsUpTo(S, n) ==
    IF n <= 0 THEN {<<>>}
    ELSE LET shorter == SeqsUpTo(S, n - 1)
         IN shorter \cup {Append(q, x) : q \in {r \in shorter : Len(r) = n - 1}, x \in S}

\* ---------------------------------------------------------------------
\* State
\* ---------------------------------------------------------------------
VARIABLES
    start_date, end_date,   \* the date range
    retries,                \* parameter retries
    backoff_initial_s,      \* parameter backoff_initial_s
    include_tightness,      \* parameter include_tightness
    include_seatmaps,       \* parameter include_seatmaps
    on_date,                \* parameter on_date: TRUE when a callback is supplied
    pc,                     \* "check", "iter", "search", "merge", "returned", "raised"
    idx, day,               \* enumerate(_iter_dates(...))
    cabin_i,                \* position of `cabin` in _CABINS
    attempt, backoff,       \* the retry loop
    offers,                 \* offers of the response still to merge
    per_flight,             \* the day's rows by key, in insertion order
    carriers_for_day,
    seatmap_cache,          \* the day's seatmap results by flight key
    rows,                   \* the list the driver returns
    returned,               \* what the caller receives: None, or Some(rows)
    error,                  \* the exception the caller receives: None, or Some(name)
    day_payloads,           \* history: responses merged so far this day
    sleeps,                 \* history: delays slept for the current (day, cabin)
    last_search,            \* history: the last search call and how it ended
    calls,                  \* history: search calls made for the current (day, cabin)
    seatmap_calls,          \* history: flight keys of the seatmap fetches of the day
    on_date_log,            \* history: the arguments of every call of on_date
    workers,                \* UI: the threads started so far, self._worker the last
    _events,                \* UI: self._events, the queue read by _poll_events
    run_btn,                \* UI: state of the Run button, "normal" or "disabled"
    table,                  \* UI: the runs whose rows the results table shows
    posted,                 \* history: every event put on the queue
    handled,                \* history: every event _poll_events has processed
    run_requests            \* history: the number of calls of _on_run

vars == <<start_date, end_date, retries, backoff_initial_s, include_tightness,
          include_seatmaps, pc, idx, day, cabin_i, attempt, backoff, offers,
          per_flight, carriers_for_day, seatmap_cache, rows, returned, error,
          day_payloads, sleeps, last_search, calls, seatmap_calls, on_date,
          on_date_log, workers, _events, run_btn, table, posted, handled,
          run_requests>>

config == <<start_date, end_date, retries, backoff_initial_s, include_tightness,
            include_seatmaps, on_date>>

\* the desktop application (seats_watch_ui.py)
ui == <<workers, _events, run_btn, table, posted, handled, run_requests>>

\* the seatmap cache of the day and the log of the fetches made for it
seat == <<seatmap_cache, seatmap_calls>>

cabin == _CABINS[cabin_i]

total_days == end_date - start_date + 1

\* offers received so far this day
RECURSIVE n_offers(_)
n_offers(payloads) ==
    IF payloads = <<>> THEN 0
    ELSE Len(Head(payloads).data) + n_offers(Tail(payloads))

\* ---------------------------------------------------------------------
\* Seatmap enrichment (lines 665-693)
\* ---------------------------------------------------------------------

\* what client.seatmaps and the seat count do for one offer: return the counts,
\* or raise an exception (its text)
SeatmapOk(total, by_cabin) ==
    [raised |-> None,
     counts |-> [total_selectable |-> total, selectable_by_cabin |-> by_cabin]]
SeatmapFails(text) == [raised |-> Some(text), counts |-> <<>>]

SeatmapResults ==
    { SeatmapOk(3, [c \in {"ECONOMY", "BUSINESS"} |-> IF c = "ECONOMY" THEN 2 ELSE 1]),
      SeatmapFails("429 Too Many Requests"),
      SeatmapFails("ConnectionError") }

\* lines 668-672: the cache entry (counts, status, err) of a fetch
seatmap_entry(result) ==
    IF result.raised = None
    THEN [counts |-> result.counts, status |-> "ok", err |-> None]
    ELSE [counts |-> [total_selectable |-> 0, selectable_by_cabin |-> <<>>],
          status |-> "error", err |-> result.raised]

\* a variant of seatmap_fetch_needed that fetches again after a failure
seatmap_fetch_needed_retry_errors(cache, flight_key) ==
    flight_key \notin DOMAIN cache \/ cache[flight_key].status = "error"

\* a variant of seatmap_fetch_needed that ignores the cache
seatmap_fetch_needed_always(cache, flight_key) == TRUE

\* line 667
seatmap_fetch_needed(cache, flight_key) == flight_key \notin DOMAIN cache

\* seatmap_cache[flight_key] = entry
cache_put(cache, flight_key, entry) ==
    [k \in DOMAIN cache \cup {flight_key} |->
        IF k = flight_key THEN entry ELSE cache[k]]

\* by_cabin.get(cabin, 0)
selectable(counts, c) ==
    IF c \in DOMAIN counts.selectable_by_cabin THEN counts.selectable_by_cabin[c] ELSE 0

SeatmapFields ==
    {"seatmapStatus", "seatmapError", "selectableEconomy",
     "selectablePremiumEconomy", "selectableBusiness", "selectableFirst"}

\* lines 674-693: the row takes the cached entry of its flight key
upd_seatmap(row, entry) ==
    LET ok == entry.status = "ok"
        sel(c) == IF ok THEN Some(selectable(entry.counts, c)) ELSE None
    IN  [f \in DOMAIN row \cup SeatmapFields |->
            CASE f = "seatmapSeen" -> TRUE
              [] f = "seatmapStatus" -> entry.status
              [] f = "seatmapError" -> entry.err
              [] f = "selectableEconomy" -> sel("ECONOMY")
              [] f = "selectablePremiumEconomy" -> sel("PREMIUM_ECONOMY")
              [] f = "selectableBusiness" -> sel("BUSINESS")
              [] f = "selectableFirst" -> sel("FIRST")
              [] OTHER -> row[f]]

\* lines 665-693 for an accepted offer, the cache holding its flight key
merge_seatmap(pf, offer, cache) ==
    LET i == pf_index(pf, offer_key(offer))
    IN  [pf EXCEPT ![i].row = upd_seatmap(@, cache[offer_key(offer)[2]])]

\* the state after the driver's first lines (510-513), parameters aside
\* App.__init__ (seats_watch_ui.py lines 22-32): no worker, an empty queue, the
\* button as built
InitApp ==
    /\ workers = <<>>
    /\ _events = <<>>
    /\ run_btn = "normal"
    /\ table = <<>>
    /\ posted = <<>>
    /\ handled = <<>>
    /\ run_requests = 0

InitState ==
    /\ InitApp
    /\ start_date = 0
    /\ pc = "iter"
    /\ idx = 0
    /\ day = start_date
    /\ cabin_i = 1
    /\ attempt = 0
    /\ backoff = backoff_initial_s
    /\ offers = <<>>
    /\ per_flight = <<>>
    /\ carriers_for_day = <<>>
    /\ rows = <<>>
    /\ returned = None
    /\ error = None
    /\ day_payloads = <<>>
    /\ sleeps = <<>>
    /\ last_search = [day |-> 0, cabin |-> "", status |-> "none"]
    /\ calls = 0
    /\ seatmap_cache = <<>>
    /\ seatmap_calls = <<>>
    /\ on_date_log = <<>>

\* the parameters left at their defaults (lines 504-506)
Defaults ==
    /\ backoff_initial_s = 1
    /\ include_seatmaps = FALSE
    /\ on_date = FALSE

Init ==
    /\ Defaults
    /\ InitState
    /\ end_date \in -1..MaxDay
    /\ retries \in 0..MaxRetries
    /\ include_tightness = TRUE

\* a variant of IterDatesRaises that calls the callback for the start date first
IterDatesRaises_after_callback ==
    /\ pc = "iter"
    /\ end_date < start_date
    /\ pc' = "raised"
    /\ error' = Some("ValueError")
    /\ returned' = caller_receives("raised", rows)
    /\ on_date_log' = IF on_date THEN Append(on_date_log, <<day, idx, total_days>>)
                      ELSE on_date_log
    /\ UNCHANGED <<config, ui, idx, day, cabin_i, attempt, backoff, offers, per_flight,
                   carriers_for_day, rows, day_payloads, sleeps, last_search, calls, seat>>

\* _iter_dates raises on its first step when the range is reversed (line 300)
IterDatesRaises ==
    /\ pc = "iter"
    /\ end_date < start_date
    /\ pc' = "raised"
    /\ error' = Some("ValueError")
    /\ returned' = caller_receives("raised", rows)
    /\ UNCHANGED <<config, ui, on_date_log, idx, day, cabin_i, attempt, backoff, offers, per_flight,
                   carriers_for_day, rows, day_payloads, sleeps, last_search, calls, seat>>

\* a variant of progress_event that counts the days from 1
progress_event_one_based(d, i, total) == <<d, i + 1, total>>

\* line 516: the arguments on_date is called with
progress_event(d, i, total) == <<d, i, total>>

\* a variant of StartDay that carries the seatmap cache over to the next day
StartDay_keeps_cache ==
    /\ pc = "iter"
    /\ end_date >= start_date
    /\ day <= end_date
    /\ per_flight' = <<>>
    /\ carriers_for_day' = <<>>
    /\ day_payloads' = <<>>
    /\ cabin_i' = 1
    /\ attempt' = 0
    /\ backoff' = backoff_initial_s
    /\ sleeps' = <<>>
    /\ offers' = <<>>
    /\ calls' = 0
    /\ seatmap_calls' = <<>>
    /\ on_date_log' = IF on_date
                      THEN Append(on_date_log, progress_event(day, idx, total_days))
                      ELSE on_date_log
    /\ pc' = "search"
    /\ UNCHANGED <<config, ui, idx, day, rows, returned, error, last_search,
                   seatmap_cache>>

\* lines 514-524: the next day starts with a call of on_date, if supplied, and
\* empty per-day state
StartDay ==
    /\ pc = "iter"
    /\ end_date >= start_date
    /\ day <= end_date
    /\ per_flight' = <<>>
    /\ carriers_for_day' = <<>>
    /\ day_payloads' = <<>>
    /\ cabin_i' = 1
    /\ attempt' = 0
    /\ backoff' = backoff_initial_s
    /\ sleeps' = <<>>
    /\ offers' = <<>>
    /\ calls' = 0
    /\ seatmap_cache' = <<>>
    /\ seatmap_calls' = <<>>
    /\ on_date_log' = IF on_date
                      THEN Append(on_date_log, progress_event(day, idx, total_days))
                      ELSE on_date_log
    /\ pc' = "search"
    /\ UNCHANGED <<config, ui, idx, day, rows, returned, error, last_search>>

\* line 712
Return ==
    /\ pc = "iter"
    /\ end_date >= start_date
    /\ day > end_date
    /\ pc' = "returned"
    /\ returned' = caller_receives("returned", rows)
    /\ UNCHANGED <<config, ui, on_date_log, idx, day, cabin_i, attempt, backoff, offers, per_flight,
                   carriers_for_day, rows, error, day_payloads, sleeps, last_search, calls, seat>>

\* lines 527-540: the search returns a payload
SearchReturns(data, carriers) ==
    /\ pc = "search"
    /\ carriers_for_day' = dict_update(carriers_for_day, _carriers_dictionary(carriers))
    /\ offers' = data
    /\ day_payloads' = Append(day_payloads,
                              [cabin |-> cabin, carriers |-> carriers, data |-> data])
    /\ last_search' = [day |-> day, cabin |-> cabin, status |-> "ok"]
    /\ calls' = calls + 1
    /\ pc' = "merge"
    /\ UNCHANGED <<config, ui, on_date_log, idx, day, cabin_i, attempt, backoff, per_flight, rows,
                   returned, error, sleeps, seat>>

\* a variant of SearchHTTPError in which a retry starts from an empty row map
SearchHTTPError_resets_rows(status) ==
    /\ pc = "search"
    /\ last_search' = [day |-> day, cabin |-> cabin,
                       status |-> IF status = Some(429) THEN "429" ELSE "http"]
    /\ IF should_retry(status, attempt, retries)
       THEN /\ sleeps' = Append(sleeps, backoff)
            /\ backoff' = next_backoff(backoff)
            /\ attempt' = attempt + 1
            /\ per_flight' = <<>>
            /\ UNCHANGED <<pc, error, returned>>
       ELSE /\ pc' = "raised"
            /\ error' = Some("HTTPError")
            /\ returned' = caller_receives("raised", rows)
            /\ UNCHANGED <<sleeps, backoff, attempt, per_flight>>
    /\ calls' = calls + 1
    /\ UNCHANGED <<config, ui, on_date_log, idx, day, cabin_i, offers, carriers_for_day,
                   rows, day_payloads, seat>>

\* lines 696-702: the search raises requests.HTTPError; status is None when
\* the exception carries no response
SearchHTTPError(status) ==
    /\ pc = "search"
    /\ last_search' = [day |-> day, cabin |-> cabin,
                       status |-> IF status = Some(429) THEN "429" ELSE "http"]
    /\ IF should_retry(status, attempt, retries)
       THEN /\ sleeps' = Append(sleeps, backoff)
            /\ backoff' = next_backoff(backoff)
            /\ attempt' = attempt + 1
            /\ UNCHANGED <<pc, error, returned>>
       ELSE /\ pc' = "raised"
            /\ error' = Some("HTTPError")
            /\ returned' = caller_receives("raised", rows)
            /\ UNCHANGED <<sleeps, backoff, attempt>>
    /\ calls' = calls + 1
    /\ UNCHANGED <<config, ui, on_date_log, idx, day, cabin_i, offers, per_flight, carriers_for_day,
                   rows, day_payloads, seat>>

\* the search raises anything else (connection error, missing token): no
\* except clause matches
SearchOtherException ==
    /\ pc = "search"
    /\ last_search' = [day |-> day, cabin |-> cabin, status |-> "exc"]
    /\ calls' = calls + 1
    /\ pc' = "raised"
    /\ error' = Some("Exception")
    /\ returned' = caller_receives("raised", rows)
    /\ UNCHANGED <<config, ui, on_date_log, idx, day, cabin_i, attempt, backoff, offers, per_flight,
                   carriers_for_day, rows, day_payloads, sleeps, seat>>

\* one iteration of `for offer in offers`; with include_seatmaps an accepted
\* offer whose flight key is not cached yet makes one seatmap fetch, whose
\* outcome is the environment's
MergeOffer ==
    /\ pc = "merge"
    /\ offers # <<>>
    /\ LET offer == Head(offers)
           pf == merge_offer(per_flight, carriers_for_day, day, cabin, offer,
                             include_tightness)
       IN  IF include_seatmaps /\ offer_accepted(offer, cabin)
           THEN LET flight_key == offer_key(offer)[2] IN
                IF seatmap_fetch_needed(seatmap_cache, flight_key)
                THEN \E result \in SeatmapResults :
                        /\ seatmap_cache' = cache_put(seatmap_cache, flight_key,
                                                      seatmap_entry(result))
                        /\ seatmap_calls' = Append(seatmap_calls, flight_key)
                        /\ per_flight' = merge_seatmap(pf, offer, seatmap_cache')
                ELSE /\ per_flight' = merge_seatmap(pf, offer, seatmap_cache)
                     /\ UNCHANGED seat
           ELSE /\ per_flight' = pf
                /\ UNCHANGED seat
    /\ offers' = Tail(offers)
    /\ UNCHANGED <<config, ui, on_date_log, pc, idx, day, cabin_i, attempt, backoff, carriers_for_day,
                   rows, returned, error, day_payloads, sleeps, last_search, calls>>

\* a variant of last_cabin that leaves the cabin loop one cabin early
last_cabin_one_early(i) == i >= Len(_CABINS) - 1

\* line 523: `for cabin in _CABINS` is exhausted after the cabin at position i
last_cabin(i) == i = Len(_CABINS)

\* line 695 `break`, then the next cabin (lines 523-524)
NextCabin ==
    /\ pc = "merge"
    /\ offers = <<>>
    /\ ~last_cabin(cabin_i)
    /\ cabin_i' = cabin_i + 1
    /\ attempt' = 0
    /\ backoff' = backoff_initial_s
    /\ sleeps' = <<>>
    /\ calls' = 0
    /\ pc' = "search"
    /\ UNCHANGED <<config, ui, on_date_log, idx, day, offers, per_flight, carriers_for_day, rows,
                   returned, error, day_payloads, last_search, seat>>

\* line 695 `break` after the last cabin, then lines 704-705
EmitDay ==
    /\ pc = "merge"
    /\ offers = <<>>
    /\ last_cabin(cabin_i)
    /\ rows' = rows \o sorted_rows(per_flight, <<>>)
    /\ idx' = idx + 1
    /\ day' = day + 1
    /\ pc' = "iter"
    /\ UNCHANGED <<config, ui, on_date_log, cabin_i, attempt, backoff, offers, per_flight,
                   carriers_for_day, returned, error, day_payloads, sleeps, last_search,
                   calls, seat>>

HTTPStatuses == {Some(429), Some(500), None}

Driver ==
    \/ IterDatesRaises
    \/ StartDay
    \/ Return
    \/ \E status \in HTTPStatuses : SearchHTTPError(status)
    \/ SearchOtherException
    \/ MergeOffer
    \/ NextCabin
    \/ EmitDay

Next ==
    \/ Driver
    \/ \E data \in SeqsUpTo(DriverOffers, MaxOffers - n_offers(day_payloads)),
          carriers \in DriverCarriers : SearchReturns(data, carriers)

Spec == Init /\ [][Next]_vars

\* one day, every kind of offer
InitAgg ==
    /\ Defaults
    /\ InitState
    /\ end_date \in {-1, 0}
    /\ retries = 0
    /\ include_tightness = TRUE

NextAgg ==
    \/ Driver
    \/ \E data \in SeqsUpTo(AggOffers, MaxAggOffers - n_offers(day_payloads)),
          carriers \in AggCarriers : SearchReturns(data, carriers)

SpecAgg == InitAgg /\ [][NextAgg]_vars

\* one day, direct and non-direct offers
NextDirect ==
    \/ Driver
    \/ \E data \in SeqsUpTo(DirectOffers, MaxAggOffers - n_offers(day_payloads)),
          carriers \in AggCarriers : SearchReturns(data, carriers)

InitDirect ==
    /\ Defaults
    /\ InitState
    /\ end_date \in {-1, 0}
    /\ retries = 0
    /\ include_tightness \in BOOLEAN

SpecDirect == InitDirect /\ [][NextDirect]_vars

\* two days, flights of two airlines at two departure times
InitSort ==
    /\ Defaults
    /\ InitState
    /\ end_date \in {-1, 0, 1}
    /\ retries = 0
    /\ include_tightness = TRUE

NextSort ==
    \/ Driver
    \/ \E data \in SeqsUpTo(SortOffers, MaxSortOffers - n_offers(day_payloads)),
          carriers \in AggCarriers : SearchReturns(data, carriers)

SpecSort == InitSort /\ [][NextSort]_vars

\* one day, offers of one flight with every kind of seat count
InitScore ==
    /\ Defaults
    /\ InitState
    /\ end_date \in {-1, 0}
    /\ retries = 0
    /\ include_tightness = TRUE

NextScore ==
    \/ Driver
    \/ \E data \in SeqsUpTo(ScoreOffers, MaxOffers - n_offers(day_payloads)),
          carriers \in DriverCarriers : SearchReturns(data, carriers)

SpecScore == InitScore /\ [][NextScore]_vars

\* seatmap enrichment switched on, offers that cannot be keyed among the others
InitKey ==
    /\ backoff_initial_s = 1
    /\ InitState
    /\ include_seatmaps = TRUE
    /\ on_date = FALSE
    /\ include_tightness = TRUE
    /\ end_date \in {-1, 0}
    /\ retries = 0

NextKey ==
    \/ Driver
    \/ \E data \in SeqsUpTo(KeyOffers, MaxSeatOffers - n_offers(day_payloads)),
          carriers \in DriverCarriers : SearchReturns(data, carriers)

SpecKey == InitKey /\ [][NextKey]_vars

\* one day, offers of one flight with every integer seat count
NextLabel ==
    \/ Driver
    \/ \E data \in SeqsUpTo(LabelOffers, MaxOffers - n_offers(day_payloads)),
          carriers \in DriverCarriers : SearchReturns(data, carriers)

SpecLabel == InitScore /\ [][NextLabel]_vars

\* seatmap enrichment switched on, one retry allowed
SeatOffers == {oA5, oB9}

InitSeat ==
    /\ backoff_initial_s = 1
    /\ InitState
    /\ include_seatmaps = TRUE
    /\ on_date = FALSE
    /\ include_tightness = TRUE
    /\ end_date \in {-1, 0}
    /\ retries = 1

NextSeat ==
    \/ Driver
    \/ \E data \in SeqsUpTo(SeatOffers, MaxSeatOffers - n_offers(day_payloads)),
          carriers \in DriverCarriers : SearchReturns(data, carriers)

SpecSeat == InitSeat /\ [][NextSeat]_vars

\* ---------------------------------------------------------------------
\* History of the day, read from day_payloads and offers
\* ---------------------------------------------------------------------
CabinSet == {_CABINS[i] : i \in 1..Len(_CABINS)}

max_key(c) ==
    CASE c = "ECONOMY" -> "economyMax"
      [] c = "PREMIUM_ECONOMY" -> "premiumEconomyMax"
      [] c = "BUSINESS" -> "businessMax"
      [] c = "FIRST" -> "firstMax"

seen_key(c) ==
    CASE c = "ECONOMY" -> "economySeen"
      [] c = "PREMIUM_ECONOMY" -> "premiumEconomySeen"
      [] c = "BUSINESS" -> "businessSeen"
      [] c = "FIRST" -> "firstSeen"

\* the offers of the i-th response of the day that the merge loop has gone through
Processed(i) ==
    IF i = Len(day_payloads)
    THEN SubSeq(day_payloads[i].data, 1, Len(day_payloads[i].data) - Len(offers))
    ELSE day_payloads[i].data

\* <<cabin, offer>> for every offer gone through so far this day
ProcessedPairs ==
    UNION {{<<day_payloads[i].cabin, Processed(i)[j]>> : j \in 1..Len(Processed(i))} :
              i \in 1..Len(day_payloads)}

\* the accepted ones: direct, keyable and matching the queried cabin
AcceptedPairs == {p \in ProcessedPairs : offer_accepted(p[2], p[1])}

\* integer seat counts of the accepted offers (among the pairs ap) of key k
\* returned by cabin c's query
SeatCounts(ap, k, c) ==
    {seats_int_of(p[2])[1] :
        p \in {q \in ap : q[1] = c /\ offer_key(q[2]) = k /\ seats_int_of(q[2]) # None}}

\* numeric min_bookable of the accepted offers (among ap) of key k, all cabins together
MinBookables(ap, k) ==
    {compute_tightness(p[2]).min_bookable[1] :
        p \in {q \in ap : offer_key(q[2]) = k /\ compute_tightness(q[2]).min_bookable # None}}

\* the key of an emitted row, rebuilt from its fields
row_key(r) == <<r.airlineCode, r.flight \o <<64>> \o r.departureAt>>

\* the day day_payloads belongs to, and whether its rows have been emitted
Emitted == pc \in {"iter", "returned"} /\ idx > 0
HistoryDay == IF Emitted THEN day - 1 ELSE day
EmittedRows == IF Emitted THEN SelectSeq(rows, LAMBDA r : r.date = HistoryDay) ELSE <<>>

\* the rows of the day: in the map while it is built, in the output once emitted
DayRows == SeqToSet(EmittedRows) \cup {per_flight[i].row : i \in 1..Len(per_flight)}

\* ---------------------------------------------------------------------
\* C1: every non-null cabin maximum of a row, during the day and in the
\* emitted rows, is the largest integer numberOfBookableSeats among the accepted
\* offers of the row's key that the cabin's own query returned that day.
\* ---------------------------------------------------------------------
C1_CabinMaxIsMaximum ==
    LET ap == AcceptedPairs IN
    \A r \in DayRows : \A c \in CabinSet :
        r[max_key(c)] # None =>
            LET counts == SeatCounts(ap, row_key(r), c) IN
            /\ counts # {}
            /\ r[max_key(c)][1] = Max(counts)

\* the economy query returned AA100 with 5 seats, then with 3: economyMax is 5
C1_Witness ==
    /\ pc = "merge" /\ cabin = "ECONOMY" /\ offers = <<>>
    /\ day_payloads[1].data = <<oA5, oA3>>
    /\ Len(per_flight) = 1
    /\ per_flight[1].row.economyMax = Some(5)

\* ---------------------------------------------------------------------
\* C2: in every state and in every emitted row, a cabin's maximum is
\* non-null only if that cabin's seen flag is true.
\* ---------------------------------------------------------------------
C2_MaxImpliesSeen ==
    \A r \in DayRows \cup SeqToSet(rows) : \A c \in CabinSet :
        r[max_key(c)] # None => r[seen_key(c)] = TRUE

\* an emitted row with a maximum for one cabin and a seen flag without a
\* maximum for another
C2_Witness ==
    /\ Emitted
    /\ \E r \in SeqToSet(rows) :
          /\ r.businessMax # None /\ r.businessSeen
          /\ r.firstMax = None /\ r.firstSeen

\* ---------------------------------------------------------------------
\* C3: with tightness enabled, a non-null tightnessMinBookable is the
\* smallest numeric min_bookable of the accepted offers of the row's key so far
\* this day, and tightnessScore and tightnessLabel are the scorer's score and
\* label for that value.
\* ---------------------------------------------------------------------
C3_TightnessIsMinimum ==
    include_tightness =>
        LET ap == AcceptedPairs IN
        \A r \in DayRows :
            r.tightnessMinBookable # None =>
                LET mbs == MinBookables(ap, row_key(r)) IN
                /\ mbs # {}
                /\ r.tightnessMinBookable[1] = Min(mbs)
                /\ r.tightnessScore = Some(tightness_score(r.tightnessMinBookable[1]))
                /\ r.tightnessLabel = Some(tightness_label(r.tightnessMinBookable[1]))

\* AA100 with 5 seats, then with 3, and nothing else: the minimum is 3
C3_Witness ==
    /\ include_tightness
    /\ pc = "merge" /\ cabin = "ECONOMY" /\ offers = <<>>
    /\ day_payloads[1].data = <<oA5, oA3>>
    /\ per_flight[1].row.tightnessMinBookable = Some(3)
    /\ per_flight[1].row.tightnessScore = Some(76)
    /\ per_flight[1].row.tightnessLabel = Some("VERY TIGHT")

\* ---------------------------------------------------------------------
\* C4: the day's output holds exactly one row for every key of an accepted
\* offer of the four queries and no other row, and the row's seen flag of a
\* cabin is true exactly when that cabin's query returned an accepted offer of
\* the key; the same holds of the row map while the day is processed.
\* ---------------------------------------------------------------------
OneRowPerKey(rs) ==
    LET ap == AcceptedPairs IN
    /\ {row_key(rs[i]) : i \in 1..Len(rs)} = {offer_key(p[2]) : p \in ap}
    /\ \A i, j \in 1..Len(rs) : row_key(rs[i]) = row_key(rs[j]) => i = j
    /\ \A i \in 1..Len(rs) : \A c \in CabinSet :
          rs[i][seen_key(c)] =
              (\E p \in ap : p[1] = c /\ offer_key(p[2]) = row_key(rs[i]))

C4_OneRowPerKey ==
    /\ Emitted => OneRowPerKey(EmittedRows)
    /\ ~Emitted =>
          /\ OneRowPerKey([i \in 1..Len(per_flight) |-> per_flight[i].row])
          /\ \A i \in 1..Len(per_flight) : per_flight[i].key = row_key(per_flight[i].row)

\* AA100 returned by the economy query and by the business query: one row,
\* seen in both cabins, each with its own maximum
C4_Witness ==
    /\ Emitted
    /\ day_payloads[1].data = <<oA5>>
    /\ day_payloads[3].data = <<oA3>>
    /\ Len(EmittedRows) = 1
    /\ EmittedRows[1].economySeen /\ EmittedRows[1].businessSeen
    /\ EmittedRows[1].economyMax = Some(5)
    /\ EmittedRows[1].businessMax = Some(3)

\* ---------------------------------------------------------------------
\* C5: a step of the query for cabin C leaves, in every row, the maximum
\* and the seen flag of each other cabin as they were (null and false in a row
\* the step creates); a cabin's fields change only in a merge step of that
\* cabin's own query.
\* ---------------------------------------------------------------------
\* the row at position i before the step: a row created by the step starts
\* with null maxima and false seen flags
RowBefore(i) ==
    IF i <= Len(per_flight) THEN per_flight[i].row
    ELSE [k \in {max_key(c) : c \in CabinSet} \cup {seen_key(c) : c \in CabinSet} |->
             IF k \in {max_key(c) : c \in CabinSet} THEN None ELSE FALSE]

C5_CabinIsolation ==
    [][\A i \in 1..Len(per_flight') : \A c \in CabinSet :
          (pc # "merge" \/ c # cabin) =>
              /\ i <= Len(per_flight) => per_flight'[i].key = per_flight[i].key
              /\ per_flight'[i].row[max_key(c)] = RowBefore(i)[max_key(c)]
              /\ per_flight'[i].row[seen_key(c)] = RowBefore(i)[seen_key(c)]]_vars

\* the business query has raised businessMax of a row whose economyMax, set
\* by the economy query, is still 5
C5_Witness ==
    /\ pc = "merge" /\ cabin = "BUSINESS" /\ offers = <<>>
    /\ day_payloads[1].data = <<oA5>>
    /\ day_payloads[3].data = <<oA3>>
    /\ per_flight[1].row.economyMax = Some(5)
    /\ per_flight[1].row.businessMax = Some(3)
    /\ ~per_flight[1].row.premiumEconomySeen

\* ---------------------------------------------------------------------
\* C6: an offer with no itinerary, or with an itinerary that does not have
\* exactly one segment, leaves the row map as it is; the rows of the map are
\* never more than the distinct flights of the direct offers gone through.
\* ---------------------------------------------------------------------
NotDirect(o) ==
    \/ o.itineraries = <<>>
    \/ \E i \in 1..Len(o.itineraries) : Len(o.itineraries[i]) # 1

C6_NonDirectExcluded ==
    /\ [][pc = "merge" /\ offers # <<>> /\ NotDirect(Head(offers))
            => per_flight' = per_flight]_vars
    /\ [](Len(per_flight) <=
            Cardinality({p[2].itineraries[1][1] :
                            p \in {q \in ProcessedPairs : ~NotDirect(q[2])}}))

\* one query returned a connecting offer and a direct offer: one row, the
\* direct offer's
C6_Witness ==
    /\ pc = "merge" /\ cabin = "ECONOMY" /\ offers = <<>>
    /\ day_payloads[1].data \in {<<oMixed, oNoItin, oA5>>, <<oConn, oNoSeg, oA5>>}
    /\ Len(per_flight) = 1
    /\ per_flight[1].key = offer_key(oA5)

\* ---------------------------------------------------------------------
\* The run with no rate limiting: the day's responses merged one after the
\* other into an empty row map
\* ---------------------------------------------------------------------
RECURSIVE merge_all(_, _, _, _, _, _)
merge_all(pf, carriers, d, c, data, tight) ==
    IF data = <<>> THEN pf
    ELSE merge_all(merge_offer(pf, carriers, d, c, Head(data), tight),
                   carriers, d, c, Tail(data), tight)

RECURSIVE clean_day(_, _, _, _, _)
clean_day(payloads, pf, carriers, d, tight) ==
    IF payloads = <<>> THEN pf
    ELSE LET p == Head(payloads)
             cs == dict_update(carriers, _carriers_dictionary(p.carriers))
         IN clean_day(Tail(payloads), merge_all(pf, cs, d, p.cabin, p.data, tight),
                      cs, d, tight)

\* ---------------------------------------------------------------------
\* C7: whatever rate limiting precedes the successful responses, the rows
\* appended for a day are those of merging the day's four successful responses,
\* one per cabin in cabin order, with no rate limiting at all; the list
\* returned is the list of these rows; and a rate-limit response raises only
\* once the query has been retried `retries` times.
\* ---------------------------------------------------------------------
C7_RetryTransparent ==
    /\ [][rows' # rows =>
            /\ Len(day_payloads) = Len(_CABINS)
            /\ \A i \in 1..Len(day_payloads) : day_payloads[i].cabin = _CABINS[i]
            /\ rows' = rows \o
                  sorted_rows(clean_day(day_payloads, <<>>, <<>>, day, include_tightness),
                              <<>>)]_vars
    /\ [](pc = "returned" => returned = Some(rows))
    /\ [](pc = "raised" /\ last_search.status = "429" => Len(sleeps) = retries)

\* the last query of the range was rate-limited `retries` times, then
\* returned an offer, and the driver returned its row
C7_Witness ==
    /\ pc = "returned"
    /\ retries > 0 /\ Len(sleeps) = retries
    /\ Len(day_payloads) = 4 /\ day_payloads[4].data # <<>>
    /\ rows # <<>> /\ rows[Len(rows)].firstSeen

\* ---------------------------------------------------------------------
\* C8: a rate-limit response to the attempt that follows `retries` retries
\* is raised without a sleep, and the rows of the day it happens on, those built
\* from the day's earlier cabins included, are not in the output.
\* ---------------------------------------------------------------------
C8_RetriesExhausted ==
    /\ [][pc = "search" /\ Len(sleeps) = retries /\ last_search'.status = "429" =>
            /\ pc' = "raised"
            /\ error' = Some("HTTPError")
            /\ sleeps' = sleeps
            /\ rows' = rows]_vars
    /\ [](pc = "raised" /\ last_search.status = "429" =>
            /\ attempt = retries
            /\ returned = None
            /\ \A i \in 1..Len(rows) : rows[i].date # day)

\* retries exhausted on the second day, after an earlier cabin of that day
\* has built a row
C8_Witness ==
    /\ pc = "raised" /\ last_search.status = "429"
    /\ retries > 0 /\ Len(sleeps) = retries
    /\ per_flight # <<>>
    /\ rows # <<>>

\* ---------------------------------------------------------------------
\* C9 as stated: when the range is aborted, the rows emitted for the
\* earlier days are at the caller's disposal.
\* ---------------------------------------------------------------------
C9_Original ==
    pc = "raised" /\ rows # <<>> => returned = Some(rows)

\* ---------------------------------------------------------------------
\* C9 amended: when a fatal error aborts the range on day d, the rows
\* appended for the days before d are left as they are in the driver's list, but
\* the caller receives the exception and no row; the list holds no row of day d
\* or of a later day.
\* ---------------------------------------------------------------------
C9_AbortKeepsNothingForCaller ==
    /\ [](pc = "raised" =>
            /\ error # None
            /\ returned = None
            /\ \A i \in 1..Len(rows) : rows[i].date < day)
    /\ [][pc' = "raised" => rows' = rows]_vars

\* the range is aborted on the second day, the first day's row is in the list
C9_Witness ==
    /\ pc = "raised"
    /\ day = 1
    /\ rows # <<>> /\ rows[1].date = 0
    /\ per_flight # <<>>

\* ---------------------------------------------------------------------
\* C10: a search failure other than a rate-limit response raises at once,
\* without a sleep, whatever attempts are left, and nothing happens after it.
\* ---------------------------------------------------------------------
C10_OtherFailurePropagates ==
    /\ [][pc = "search" /\ last_search'.status \in {"http", "exc"} =>
            /\ pc' = "raised"
            /\ error' # None
            /\ sleeps' = sleeps
            /\ attempt' = attempt]_vars
    /\ [][~(last_search.status \in {"http", "exc"})]_vars

\* an HTTP error other than 429 on a first attempt with retries left
C10_Witness ==
    /\ pc = "raised" /\ last_search.status = "http"
    /\ retries > 0 /\ attempt = 0 /\ sleeps = <<>>
    /\ last_search.day = 0 /\ end_date = 1

\* ---------------------------------------------------------------------------
\* C11  a day's rows wait for its four cabins
\* ---------------------------------------------------------------------------

\* the responses merged for the running day are one successful search per cabin,
\* in the order of the cabin loop
AllCabinsMerged ==
    /\ Len(day_payloads) = 4
    /\ \A c \in CabinSet : \E i \in 1..4 : day_payloads[i].cabin = c
    /\ offers = <<>>
    /\ last_search.status = "ok"

\* C11: rows of a day are appended to the output only in a step taken after the
\* searches of all four cabins of that day have succeeded and their offers have
\* been merged, and the step appends rows of that day only; while a query of the
\* running day is pending or has failed the output holds no row of that day.
C11_RowsAfterFourCabins ==
    /\ [][rows' # rows =>
            /\ AllCabinsMerged
            /\ Len(rows') >= Len(rows)
            /\ SubSeq(rows', 1, Len(rows)) = rows
            /\ \A i \in (Len(rows) + 1)..Len(rows') : rows'[i].date = day]_vars
    /\ [](pc \in {"search", "merge", "raised"} =>
            \A i \in 1..Len(rows) : rows[i].date # day)

\* a day was emitted after its four responses, with a row in the output
C11_Witness ==
    /\ Emitted
    /\ rows # <<>>
    /\ rows[Len(rows)].date = day - 1
    /\ Len(day_payloads) = 4

\* ---------------------------------------------------------------------------
\* C13  searches in (day, cabin) order
\* ---------------------------------------------------------------------------

CabinOrder == <<"ECONOMY", "PREMIUM_ECONOMY", "BUSINESS", "FIRST">>

CabinRank(c) == CHOOSE i \in 1..4 : CabinOrder[i] = c

\* the (day, cabin) that follows the (day, cabin) of search s in lexicographic order
NextQuery(s) ==
    IF s.cabin = "FIRST"
    THEN <<s.day + 1, "ECONOMY">>
    ELSE <<s.day, CabinOrder[CabinRank(s.cabin) + 1]>>

\* C13: every search call is for the first (day, cabin) of the range if it is the
\* first call, for the same (day, cabin) as the previous call if that call was
\* answered 429 (a retry), and for the next (day, cabin) in lexicographic order,
\* cabins in the order ECONOMY, PREMIUM_ECONOMY, BUSINESS, FIRST, if the previous
\* call succeeded, and then only once all offers of that response are merged.
C13_SearchOrder ==
    [][pc = "search" =>
        LET q == <<last_search'.day, last_search'.cabin>> IN
        /\ offers = <<>>
        /\ last_search.status \in {"none", "429", "ok"}
        /\ last_search.status = "none" => q = <<start_date, "ECONOMY">>
        /\ last_search.status = "429" => q = <<last_search.day, last_search.cabin>>
        /\ last_search.status = "ok" => q = NextQuery(last_search)]_vars

\* the second day's PREMIUM_ECONOMY search was answered after a retry
C13_Witness ==
    /\ pc = "merge"
    /\ last_search = [day |-> 1, cabin |-> "PREMIUM_ECONOMY", status |-> "ok"]
    /\ sleeps # <<>>

\* ---------------------------------------------------------------------------
\* C14  termination and the number of attempts
\* ---------------------------------------------------------------------------

\* the driver with one kind of offer; the interpreter keeps running it: a step
\* that can be taken is taken
NextRetry ==
    \/ Driver
    \/ \E data \in SeqsUpTo({oA5}, MaxOffers - n_offers(day_payloads)),
          carriers \in DriverCarriers : SearchReturns(data, carriers)

SpecFair == Init /\ [][NextRetry]_vars /\ WF_vars(NextRetry)

Terminated == pc \in {"returned", "raised"}

BackoffInitials == {1, 3, 20}

InitBackoff ==
    /\ backoff_initial_s \in BackoffInitials
    /\ include_seatmaps = FALSE
    /\ on_date = FALSE
    /\ InitState
    /\ end_date \in {-1, 0}
    /\ retries = DefaultRetries
    /\ include_tightness = TRUE

SpecBackoff == InitBackoff /\ [][NextRetry]_vars

RECURSIVE Pow2(_)
Pow2(k) == IF k = 0 THEN 1 ELSE 2 * Pow2(k - 1)

ScheduledDelay(k) ==
    IF backoff_initial_s * Pow2(k) < 16 THEN backoff_initial_s * Pow2(k) ELSE 16

\* C12: for every (day, cabin) query the delay slept before the k-th retry
\* (k = 0 for the first) is min(backoff_initial_s * 2^k, 16) seconds, whatever the
\* initial value, so that no sleep is longer than 16 seconds.
C12_BackoffSchedule ==
    \A k \in 1..Len(sleeps) :
        /\ sleeps[k] = ScheduledDelay(k - 1)
        /\ sleeps[k] <= 16

\* ---------------------------------------------------------------------------
\* C15  merging a response twice
\* ---------------------------------------------------------------------------

\* lines 537-663 for one response: the carrier dictionary is folded in, then
\* every offer is merged
merge_response(pf, carriers, d, p, tight) ==
    merge_all(pf, dict_update(carriers, _carriers_dictionary(p.carriers)),
              d, p.cabin, p.data, tight)

ResponseMerged == pc = "merge" /\ offers = <<>>

\* C15: once a response (day, cabin, offers, carrier dictionary) has been merged
\* into the day's row map, merging the same response again leaves the row map as
\* it is: same keys, same maxima and seen flags, same tightness triple, same name.
C15_MergeIdempotent ==
    ResponseMerged =>
        merge_response(per_flight, carriers_for_day, day,
                       day_payloads[Len(day_payloads)], include_tightness)
            = per_flight

\* a response with a smaller then a larger count of one flight has been merged
\* into a map that held the flight already
C15_Witness ==
    /\ ResponseMerged
    /\ Len(day_payloads) = 2
    /\ day_payloads[1].data = <<oA7n2>>
    /\ day_payloads[2].data = <<oA3, oA5>>

\* ---------------------------------------------------------------------------
\* C16, C17  seatmap fetches
\* ---------------------------------------------------------------------------

\* the flight key "{operating}{flightNumber}@{departureTimestamp}" of an offer
flight_key_of(offer) == offer_key(offer)[2]

FetchCount(k) == Cardinality({i \in 1..Len(seatmap_calls) : seatmap_calls[i] = k})

\* C16: with seatmap enrichment on, within one day the seatmap fetch is made at
\* most once per flight key, however many accepted offers and cabin queries
\* reference the flight: exactly once for each key an accepted offer had, and for
\* no other key.
C16_OneFetchPerFlightKey ==
    LET keys == {flight_key_of(p[2]) : p \in AcceptedPairs} IN
    /\ \A k \in keys : FetchCount(k) = 1
    /\ \A i \in 1..Len(seatmap_calls) : seatmap_calls[i] \in keys

\* the economy and the premium economy query each returned an offer of the same
\* flight, and one fetch was made
C16_Witness ==
    /\ pc = "merge" /\ offers = <<>>
    /\ Len(day_payloads) = 2
    /\ day_payloads[1].data = <<oA5>>
    /\ day_payloads[2].data = <<oA5>>
    /\ seatmap_calls = <<flight_key_of(oA5)>>

\* the step makes a seatmap fetch for key k and the fetch raises
FetchFails(k) ==
    /\ seatmap_calls' = Append(seatmap_calls, k)
    /\ seatmap_cache'[k].status = "error"

NoSelectable(r) ==
    /\ r.selectableEconomy = None
    /\ r.selectablePremiumEconomy = None
    /\ r.selectableBusiness = None
    /\ r.selectableFirst = None

\* C17: a seatmap fetch that raises, whatever the exception, is not propagated
\* and starts no search retry or backoff: the step stays in the offer loop with
\* attempt, backoff and sleeps as they were; the flight key is cached with status
\* "error" and zero counts, its entry is never replaced nor the key fetched again
\* that day, its row reports seatmapStatus "error", and no step of the offer loop
\* ends the run.
C17_SeatmapFailureContained ==
    /\ [][\A k \in DOMAIN seatmap_cache' :
            FetchFails(k) =>
                /\ pc' = "merge" /\ error' = None /\ returned' = None
                /\ <<attempt', backoff', sleeps', calls'>> = <<attempt, backoff, sleeps, calls>>
                /\ offers' = Tail(offers)
                /\ seatmap_cache'[k].counts.total_selectable = 0
                /\ seatmap_cache'[k].counts.selectable_by_cabin = <<>>
                /\ seatmap_cache'[k].err # None
                /\ \E i \in 1..Len(per_flight') :
                      /\ per_flight'[i].key[2] = k
                      /\ per_flight'[i].row.seatmapSeen
                      /\ per_flight'[i].row.seatmapStatus = "error"
                      /\ NoSelectable(per_flight'[i].row)]_vars
    /\ [][pc = "merge" =>
            \A k \in DOMAIN seatmap_cache :
                /\ k \in DOMAIN seatmap_cache'
                /\ seatmap_cache'[k] = seatmap_cache[k]
                /\ seatmap_calls' # Append(seatmap_calls, k)]_vars
    /\ [](\A i \in 1..Len(per_flight) :
            LET r == per_flight[i].row IN
            r.seatmapSeen =>
                /\ r.seatmapStatus = seatmap_cache[per_flight[i].key[2]].status
                /\ r.seatmapError = seatmap_cache[per_flight[i].key[2]].err)
    /\ [][pc = "merge" /\ offers # <<>> => pc' = "merge" /\ error' = None]_vars

\* the run returned a row although the seatmap fetch of its flight failed in the
\* economy query; the offer of the last cabin was still merged into it
C17_Witness ==
    /\ pc = "returned"
    /\ returned # None
    /\ Len(rows) = 1
    /\ rows[1].seatmapStatus = "error"
    /\ rows[1].seatmapError = Some("429 Too Many Requests")
    /\ rows[1].economySeen /\ rows[1].firstSeen
    /\ seatmap_calls = <<flight_key_of(oA5)>>

\* ---------------------------------------------------------------------------
\* C18  order of the returned rows
\* ---------------------------------------------------------------------------

\* (airlineCode, departureAt) of a is less than or equal to that of b, strings
\* compared code point by code point
PairLeq(a, b) ==
    \/ StrLess(a.airlineCode, b.airlineCode)
    \/ /\ a.airlineCode = b.airlineCode
       /\ (a.departureAt = b.departureAt \/ StrLess(a.departureAt, b.departureAt))

Ordered(rs) ==
    \A i \in 1..(Len(rs) - 1) :
        \/ rs[i].date < rs[i + 1].date
        \/ rs[i].date = rs[i + 1].date /\ PairLeq(rs[i], rs[i + 1])

\* C18: the rows, as built and as returned, are in ascending order of day, and
\* two consecutive rows of one day are in ascending order of (airlineCode,
\* departureAt), the timestamps compared as strings.
C18_RowsOrdered ==
    /\ Ordered(rows)
    /\ returned # None => Ordered(returned[1])

\* two days returned; the second day's offers arrived BA first, then the later
\* AA flight, and its rows come out AA first
C18_Witness ==
    /\ pc = "returned"
    /\ Len(returned[1]) = 3
    /\ day_payloads[1].data = <<oB100early, oA200late>>
    /\ returned[1][1].date = 0
    /\ returned[1][2].date = 1 /\ returned[1][2].airlineCode = s_AA
    /\ returned[1][3].date = 1 /\ returned[1][3].airlineCode = s_BA

\* ---------------------------------------------------------------------------
\* C19, C20  the tightness scorer
\* ---------------------------------------------------------------------------

\* every numberOfBookableSeats occurrence of the record, top level and nested
SeatOccurrences(o) ==
    {o.numberOfBookableSeats} \cup
    {o.fareDetails[i].numberOfBookableSeats : i \in 1..Len(o.fareDetails)}

\* no occurrence is non-null
NoNonNullSeats(o) == \A j \in SeatOccurrences(o) : j = JNull

\* no occurrence is a value int() accepts: each is null or not convertible
NoIntegerSeats(o) == \A j \in SeatOccurrences(o) : j.t \notin {"int", "numstr"}

NoData == [min_bookable |-> None, score |-> 0, label |-> "NO DATA"]

\* the offers compute_tightness has been called with this day
Scored == {p[2] : p \in AcceptedPairs}

\* C19 as stated: a record with no non-null numberOfBookableSeats at any depth
\* scores (None, 0, "NO DATA"), and "NO DATA" is returned for such records only.
C19_Original ==
    \A o \in Scored :
        /\ NoNonNullSeats(o) => compute_tightness(o) = NoData
        /\ compute_tightness(o).label = "NO DATA" => NoNonNullSeats(o)

\* C19: a record in which no numberOfBookableSeats value that int() accepts
\* occurs at any depth (each occurrence is null or not convertible) scores
\* (None, 0, "NO DATA"), and "NO DATA" is returned for such records only.
C19_NoDataIffNoInteger ==
    \A o \in Scored :
        /\ NoIntegerSeats(o) => compute_tightness(o) = NoData
        /\ compute_tightness(o).label = "NO DATA" => NoIntegerSeats(o)

\* a record whose only non-null count is not convertible has been scored, and
\* its row says NO DATA
C19_Witness ==
    /\ pc = "merge" /\ offers = <<>>
    /\ Offer(<< <<seg_AA100>> >>, JStr, <<FD(None, JNull)>>) \in Scored
    /\ Len(per_flight) = 1
    /\ per_flight[1].row.tightnessSeen
    /\ per_flight[1].row.tightnessLabel = Some("NO DATA")
    /\ per_flight[1].row.tightnessMinBookable = None

\* the integers among the occurrences of the record
IntegerSeats(o) == {j.v : j \in {x \in SeatOccurrences(o) : x.t \in {"int", "numstr"}}}

\* C20: when the record holds an integer count, min_bookable is min(raw_min, 9),
\* raw_min being the least count of all occurrences, top level and nested alike;
\* a record whose least count is 9 or more scores (9, 10, "UNKNOWN/LOOSE").
C20_MinimumAndClamp ==
    \A o \in Scored :
        IntegerSeats(o) # {} =>
            LET raw_min == Min(IntegerSeats(o))
                t == compute_tightness(o)
            IN  /\ t.min_bookable = Some(IF raw_min < 9 THEN raw_min ELSE 9)
                /\ raw_min >= 9 =>
                      t = [min_bookable |-> Some(9), score |-> 10,
                           label |-> "UNKNOWN/LOOSE"]

\* a record with 10 at the top and a nested "11" has been scored, and its row
\* holds (9, 10, "UNKNOWN/LOOSE")
C20_Witness ==
    /\ pc = "merge" /\ offers = <<>>
    /\ Len(per_flight) = 1
    /\ Offer(<< <<seg_AA100>> >>, JInt(10),
             <<FD(None, JNumStr(MaxSeats + 1)), FD(None, JNull)>>) \in Scored
    /\ per_flight[1].row.tightnessMinBookable = Some(9)
    /\ per_flight[1].row.tightnessScore = Some(10)
    /\ per_flight[1].row.tightnessLabel = Some("UNKNOWN/LOOSE")

\* ---------------------------------------------------------------------------
\* C21, C22, C23  score and label of the tightness scorer
\* ---------------------------------------------------------------------------

\* the scorer's results with a numeric min_bookable, for the offers scored
NumericResults ==
    {t \in {compute_tightness(o) : o \in Scored} : t.min_bookable # None}

\* the row the one scored offer of the day has made
ScoredRow == per_flight[1].row

\* C21: for min_bookable in 1..8 the score is 100 - (min_bookable - 1) * 12, 100
\* at one seat and 16 at eight; for min_bookable = 9 it is 10; for a non-positive
\* min_bookable it is 0; the score is always within 0..100.
C21_ScoreFormula ==
    \A t \in NumericResults :
        LET mb == t.min_bookable[1] IN
        /\ mb \in 1..8 => t.score = 100 - (mb - 1) * 12
        /\ mb = 1 => t.score = 100
        /\ mb = 8 => t.score = 16
        /\ mb = 9 => t.score = 10
        /\ mb <= 0 => t.score = 0
        /\ t.score \in 0..100

\* an offer with 8 seats has been scored and its row holds the score 16
C21_Witness ==
    /\ pc = "merge" /\ offers = <<>>
    /\ Len(per_flight) = 1
    /\ Offer(<< <<seg_AA100>> >>, JInt(8), <<>>) \in Scored
    /\ ScoredRow.tightnessMinBookable = Some(8)
    /\ ScoredRow.tightnessScore = Some(16)

\* C22: for every numeric min_bookable the label is "VERY TIGHT" when
\* min_bookable <= 3, non-positive values (whose score is 0) included, "TIGHT"
\* for 4..6, "MODERATE" for 7..8 and "UNKNOWN/LOOSE" otherwise.
C22_LabelThresholds ==
    \A t \in NumericResults :
        LET mb == t.min_bookable[1] IN
        /\ mb <= 3 => t.label = "VERY TIGHT"
        /\ mb <= 0 => t.score = 0
        /\ mb \in 4..6 => t.label = "TIGHT"
        /\ mb \in 7..8 => t.label = "MODERATE"
        /\ mb >= 9 => t.label = "UNKNOWN/LOOSE"

\* an offer with -1 seats has been scored: its row holds score 0 and VERY TIGHT
C22_Witness ==
    /\ pc = "merge" /\ offers = <<>>
    /\ Len(per_flight) = 1
    /\ Offer(<< <<seg_AA100>> >>, JInt(-1), <<>>) \in Scored
    /\ ScoredRow.tightnessMinBookable = Some(-1)
    /\ ScoredRow.tightnessScore = Some(0)
    /\ ScoredRow.tightnessLabel = Some("VERY TIGHT")

\* the scorer's results over every offer the search can return
AllNumericResults ==
    {t \in {compute_tightness(o) : o \in LabelOffers} : t.min_bookable # None}

\* C23: the score does not increase with min_bookable over 1..9: the score of a
\* scored offer is at least the score of any offer with a larger min_bookable
\* and at most the score of any offer with a smaller one.
C23_ScoreNonIncreasing ==
    \A t \in NumericResults : \A u \in AllNumericResults :
        LET a == t.min_bookable[1]
            b == u.min_bookable[1]
        IN  /\ (a \in 1..9 /\ b \in 1..9 /\ a <= b) => t.score >= u.score
            /\ (a \in 1..9 /\ b \in 1..9 /\ b <= a) => u.score >= t.score

\* an offer scored 9 (score 10) has been merged, below the 16 of 8 seats
C23_Witness ==
    /\ pc = "merge" /\ offers = <<>>
    /\ Len(per_flight) = 1
    /\ Offer(<< <<seg_AA100>> >>, JInt(9), <<>>) \in Scored
    /\ ScoredRow.tightnessMinBookable = Some(9)
    /\ ScoredRow.tightnessScore = Some(10)
    /\ compute_tightness(Offer(<< <<seg_AA100>> >>, JInt(8), <<>>)).score = 16

\* ---------------------------------------------------------------------------
\* C24  the cabin membership filter
\* ---------------------------------------------------------------------------

\* the cabins the fare details of the offer declare
DeclaredCabins(o) ==
    {c \in {"ECONOMY", "PREMIUM_ECONOMY", "BUSINESS", "FIRST"} :
        \E i \in 1..Len(o.fareDetails) : o.fareDetails[i].cabin = Some(c)}

\* the step takes the next offer of the response through the merge loop
MergeStep == pc = "merge" /\ offers # <<>>

\* C24: during the query for cabin C an offer that declares cabins, C not among
\* them, changes no row, so never C's maximum; a direct, keyable offer that
\* declares no cabin is accepted for C: after the step its row has C's seen flag
\* set and C's maximum at least the offer's integer seat count.
C24_CabinMembershipFilter ==
    [][MergeStep =>
        LET o == Head(offers)
            declared == DeclaredCabins(o)
        IN  /\ (declared # {} /\ cabin \notin declared) => per_flight' = per_flight
            /\ (declared = {} /\ offer_accepted(o, cabin)) =>
                  \E i \in 1..Len(per_flight') :
                      /\ per_flight'[i].key = offer_key(o)
                      /\ per_flight'[i].row[seen_key(cabin)]
                      /\ seats_int_of(o) # None =>
                            /\ per_flight'[i].row[max_key(cabin)] # None
                            /\ per_flight'[i].row[max_key(cabin)][1] >= seats_int_of(o)[1]]_vars

\* the business query returned the offer that declares ECONOMY only, with 7
\* seats, and the row made by the economy query (5 seats, no cabin declared) has
\* no business value
C24_Witness ==
    /\ pc = "merge" /\ cabin = "BUSINESS" /\ offers = <<>>
    /\ day_payloads[1].data = <<oA5>>
    /\ day_payloads[3].data = <<oA7n2>>
    /\ Len(per_flight) = 1
    /\ per_flight[1].row.economyMax = Some(5)
    /\ per_flight[1].row.economySeen
    /\ per_flight[1].row.businessMax = None
    /\ ~per_flight[1].row.businessSeen

\* ---------------------------------------------------------------------------
\* C25  offers that cannot be keyed
\* ---------------------------------------------------------------------------

\* the first segment has no operating or own carrier code, no flight number, or
\* no departure timestamp
Unkeyable(o) ==
    LET seg0 == first_segments(o)[1] IN
    \/ ~Truthy(seg0.operating) /\ ~Truthy(seg0.carrierCode)
    \/ seg0.number = None
    \/ ~Truthy(seg0.at)

\* C25: an offer whose first segment lacks a carrier code, a flight number or a
\* departure timestamp is skipped without raising: the step leaves the row map,
\* the seatmap cache and the fetch log as they are, stays in the offer loop with
\* no error and goes on with the rest of the response; rows and cache entries
\* exist for the keys of the keyable offers only.
C25_UnkeyableSkipped ==
    /\ [][(MergeStep /\ Unkeyable(Head(offers))) =>
            /\ per_flight' = per_flight
            /\ seatmap_cache' = seatmap_cache
            /\ seatmap_calls' = seatmap_calls
            /\ carriers_for_day' = carriers_for_day
            /\ pc' = "merge" /\ error' = None /\ returned' = None
            /\ offers' = Tail(offers)]_vars
    /\ [](LET keyed == {p[2] : p \in {q \in ProcessedPairs : ~Unkeyable(q[2])}} IN
          /\ {per_flight[i].key : i \in 1..Len(per_flight)} = {offer_key(o) : o \in keyed}
          /\ DOMAIN seatmap_cache = {flight_key_of(o) : o \in keyed})

\* an offer without a carrier code came first in the economy response, the
\* offer after it was merged and its seatmap fetched
C25_Witness ==
    /\ pc = "merge" /\ offers = <<>>
    /\ day_payloads[1].data = <<oNoCode, oA5>>
    /\ Len(per_flight) = 1
    /\ per_flight[1].key = offer_key(oA5)
    /\ per_flight[1].row.economyMax = Some(5)
    /\ seatmap_calls = <<flight_key_of(oA5)>>

\* ---------------------------------------------------------------------------
\* C26  the progress callback
\* ---------------------------------------------------------------------------

\* the driver run with and without a callback; the callback records its arguments
InitProgress ==
    /\ backoff_initial_s = 1
    /\ include_seatmaps = FALSE
    /\ on_date \in BOOLEAN
    /\ InitState
    /\ end_date \in -1..MaxDay
    /\ retries = 1
    /\ include_tightness = TRUE

SpecProgress == InitProgress /\ [][NextRetry]_vars

\* the days started so far: idx counts the days completed
DaysStarted == IF pc \in {"search", "merge"} \/ (pc = "raised" /\ error # Some("ValueError"))
               THEN idx + 1 ELSE idx

\* C26: a supplied callback has been called exactly once for every day started,
\* the k-th call with the k-th day of the range, the index k - 1 and the total
\* day count; the call for a day precedes every search of the day, a failed or
\* retried search makes no call, and with or without a callback the rows emitted
\* for a day are those of merging the day's four responses.
C26_ProgressCallback ==
    /\ [](on_date =>
            /\ Len(on_date_log) = DaysStarted
            /\ \A k \in 1..Len(on_date_log) :
                  on_date_log[k] = <<start_date + (k - 1), k - 1,
                                     end_date - start_date + 1>>)
    /\ [](~on_date => on_date_log = <<>>)
    /\ [][pc = "search" =>
            /\ on_date => on_date_log[Len(on_date_log)][1] = last_search'.day
            /\ on_date_log' = on_date_log]_vars
    /\ [](Emitted =>
            EmittedRows = sorted_rows(clean_day(day_payloads, <<>>, <<>>, HistoryDay,
                                                include_tightness), <<>>))

\* the second day's callback has been made, its first search was answered 429
\* and retried, and the day's searches are still running
C26_Witness ==
    /\ on_date
    /\ pc = "search" /\ day = 1 /\ cabin_i = 1 /\ attempt = 1
    /\ on_date_log = <<<<0, 0, 2>>, <<1, 1, 2>>>>
    /\ rows # <<>>

\* ---------------------------------------------------------------------------
\* C27  day scoping
\* ---------------------------------------------------------------------------

\* two days, seatmap enrichment on, one flight offered with 5 seats on the first
\* day and with 3 on the days after, a carrier dictionary that names the airline
\* or does not
DayOffers(d) == IF d = 0 THEN {oA5} ELSE {oA3}
DayCarriers == {carriers_AA, carriers_none}

InitDays ==
    /\ backoff_initial_s = 1
    /\ include_seatmaps = TRUE
    /\ on_date = FALSE
    /\ InitState
    /\ end_date \in {-1, 0, 1}
    /\ retries = 0
    /\ include_tightness = TRUE

NextDays ==
    \/ Driver
    \/ \E data \in SeqsUpTo(DayOffers(day), MaxOffers - n_offers(day_payloads)),
          carriers \in DayCarriers : SearchReturns(data, carriers)

SpecDays == InitDays /\ [][NextDays]_vars

\* the names the day's responses give to a carrier code
DayNames(code) ==
    {day_payloads[i].carriers[code] :
        i \in {j \in 1..Len(day_payloads) : code \in DOMAIN day_payloads[j].carriers}}

\* C27: when the first search of a day is issued the row map, the carrier
\* dictionary and the seatmap cache are empty; every row of a day carries that
\* day's date, maxima that are seat counts of that day's offers, a name from that
\* day's dictionaries (or the code) and the status of that day's seatmap fetch;
\* an accepted offer whose flight key is not in the day's cache is fetched,
\* whatever earlier days fetched; and rows once emitted stay as they are.
C27_DayScoping ==
    /\ [](pc = "search" /\ cabin_i = 1 =>
            per_flight = <<>> /\ carriers_for_day = <<>> /\ seatmap_cache = <<>>)
    /\ [](LET ap == AcceptedPairs IN
          \A r \in DayRows :
            /\ r.date = HistoryDay
            /\ \A c \in CabinSet :
                  r[max_key(c)] # None => r[max_key(c)][1] \in SeatCounts(ap, row_key(r), c)
            /\ r.airline \in DayNames(r.airlineCode) \cup {r.airlineCode}
            /\ r.seatmapSeen
            /\ \E i \in 1..Len(seatmap_calls) : seatmap_calls[i] = row_key(r)[2])
    /\ [][(MergeStep /\ offer_accepted(Head(offers), cabin)
                     /\ flight_key_of(Head(offers)) \notin DOMAIN seatmap_cache) =>
            seatmap_calls' = Append(seatmap_calls, flight_key_of(Head(offers)))]_vars
    /\ [][Len(rows') >= Len(rows) /\ SubSeq(rows', 1, Len(rows)) = rows]_vars

\* the same flight on two days: two rows, the first dated day 0 with 5 seats,
\* the airline's name and a failed seatmap, the second dated day 1 with 3 seats,
\* the bare code and a seatmap fetched again, successfully
C27_Witness ==
    /\ pc = "returned"
    /\ Len(rows) = 2
    /\ row_key(rows[1]) = row_key(rows[2])
    /\ rows[1].date = 0 /\ rows[2].date = 1
    /\ rows[1].economyMax = Some(5) /\ rows[2].economyMax = Some(3)
    /\ rows[1].airline = s_Am /\ rows[2].airline = s_AA
    /\ rows[1].seatmapStatus = "error" /\ rows[2].seatmapStatus = "ok"
    /\ seatmap_calls = <<flight_key_of(oA3)>>

\* ---------------------------------------------------------------------------
\* C28  the tightness no-data policy
\* ---------------------------------------------------------------------------

\* the tightness result a row shows
tightness_of(r) == <<r.tightnessMinBookable, r.tightnessScore, r.tightnessLabel>>

\* C28: an accepted offer with no numeric min_bookable leaves the tightness
\* result of a row that has recorded one as it is and sets (None, 0, "NO DATA")
\* on a row that has recorded none; an accepted offer with a numeric
\* min_bookable met by a row showing "NO DATA" replaces the result with its own;
\* so a row that has recorded a result shows "NO DATA" exactly when none of the
\* accepted offers of its key had a numeric min_bookable.
C28_NoDataPolicy ==
    /\ [][(MergeStep /\ include_tightness /\ offer_accepted(Head(offers), cabin)) =>
            LET o == Head(offers)
                i == pf_index(per_flight, offer_key(o))
                seen == i # 0 /\ per_flight[i].row.tightnessSeen
                new == per_flight'[pf_index(per_flight', offer_key(o))].row
                t == compute_tightness(o)
            IN /\ new.tightnessSeen
               /\ t.min_bookable = None =>
                    IF seen
                    THEN tightness_of(new) = tightness_of(per_flight[i].row)
                    ELSE tightness_of(new) = <<None, Some(0), Some("NO DATA")>>
               /\ (t.min_bookable # None /\ seen
                       /\ per_flight[i].row.tightnessLabel = Some("NO DATA")) =>
                    tightness_of(new) = <<t.min_bookable, Some(t.score), Some(t.label)>>]_vars
    /\ [](include_tightness =>
            \A r \in DayRows :
                /\ r.tightnessSeen
                /\ r.tightnessLabel = Some("NO DATA")
                       <=> MinBookables(AcceptedPairs, row_key(r)) = {})

\* the economy response held an offer without a seat count, one with 5 seats
\* and again one without: the row shows the result of the second
C28_Witness ==
    /\ ResponseMerged
    /\ day_payloads[1].data = <<oA0, oA5, oA0>>
    /\ Len(per_flight) = 1
    /\ tightness_of(per_flight[1].row)
          = <<Some(5), Some(tightness_score(5)), Some(tightness_label(5))>>

\* ---------------------------------------------------------------------------
\* C29  the airline display name
\* ---------------------------------------------------------------------------

\* dictionaries naming AA one way, another way, with an empty name, or not at all
carriers_AA_Br == (s_AA :> s_Br)
carriers_BA_only == (s_BA :> s_Br)
NameCarriers == {carriers_AA, carriers_AA_Br, carriers_none, carriers_BA_only}

InitName ==
    /\ Defaults
    /\ InitState
    /\ end_date \in {-1, 0}
    /\ retries = 0
    /\ include_tightness = TRUE

NextName ==
    \/ Driver
    \/ \E data \in SeqsUpTo({oA5}, MaxSeatOffers - n_offers(day_payloads)),
          carriers \in NameCarriers : SearchReturns(data, carriers)

SpecName == InitName /\ [][NextName]_vars

\* C29: an accepted offer leaves its row, created or already there, named with
\* the day's dictionary entry for the operating code as it stands at that offer,
\* or with the code when the dictionary has none; within a day no step removes
\* a code from the dictionary, and a merged response sets the names it gives
\* (non-empty ones) and keeps every other entry.
C29_AirlineName ==
    /\ [][(MergeStep /\ offer_accepted(Head(offers), cabin)) =>
            LET o == Head(offers)
                code == _offer_operating_carrier_code(o)[1]
                new == per_flight'[pf_index(per_flight', offer_key(o))].row
            IN new.airline = IF code \in DOMAIN carriers_for_day
                             THEN carriers_for_day[code] ELSE code]_vars
    /\ [][pc # "iter" => DOMAIN carriers_for_day \subseteq DOMAIN carriers_for_day']_vars
    /\ [][(pc = "search" /\ pc' = "merge") =>
            LET given == day_payloads'[Len(day_payloads')].carriers IN
            \A k \in DOMAIN carriers_for_day' :
                carriers_for_day'[k] = IF k \in DOMAIN given /\ given[k] # <<>>
                                       THEN given[k] ELSE carriers_for_day[k]]_vars
    /\ [][pc = "merge" => carriers_for_day' = carriers_for_day]_vars

\* the row was created under a dictionary without AA and named "AA"; the
\* business response brought AA's name and its offer renamed the row
C29_Witness ==
    /\ ResponseMerged
    /\ Len(day_payloads) = 3
    /\ day_payloads[1].carriers = carriers_BA_only /\ day_payloads[1].data = <<oA5>>
    /\ day_payloads[2].carriers = carriers_none /\ day_payloads[2].data = <<>>
    /\ day_payloads[3].carriers = carriers_AA /\ day_payloads[3].data = <<oA5>>
    /\ carriers_for_day = carriers_BA
    /\ Len(per_flight) = 1
    /\ per_flight[1].row.airline = s_Am
    /\ per_flight[1].row.economySeen /\ per_flight[1].row.businessSeen

\* ---------------------------------------------------------------------------
\* C30  a failed search attempt merges nothing
\* ---------------------------------------------------------------------------

\* the per-day state a response is merged into
day_state == <<per_flight, carriers_for_day, seatmap_cache, seatmap_calls>>

\* C30: a search attempt that fails, rate-limited or otherwise, leaves the
\* day's row map, carrier dictionary and seatmap cache as they were; between
\* the start of a day and its emission they change only by a search that
\* returned and by the offers of its response; each cabin of the day has at
\* most one merged response, in cabin order, and once a response is merged the
\* row map is, seatmap fields aside, that of merging the day's responses once
\* each, however many attempts failed in between.
C30_FailedAttemptMergesNothing ==
    /\ [][(pc = "search" /\ last_search'.status # "ok") =>
            /\ day_state' = day_state
            /\ day_payloads' = day_payloads
            /\ offers' = offers]_vars
    /\ [][(day_state' # day_state /\ pc # "iter") =>
            \/ pc = "search" /\ last_search'.status = "ok" /\ pc' = "merge"
            \/ MergeStep /\ last_search.status = "ok"]_vars
    /\ [](\A i \in 1..Len(day_payloads) : day_payloads[i].cabin = _CABINS[i])
    /\ [](ResponseMerged =>
            LET clean == clean_day(day_payloads, <<>>, <<>>, day, include_tightness) IN
            /\ Len(per_flight) = Len(clean)
            /\ \A i \in 1..Len(clean) :
                  /\ per_flight[i].key = clean[i].key
                  /\ \A f \in DOMAIN clean[i].row \ (SeatmapFields \cup {"seatmapSeen"}) :
                        per_flight[i].row[f] = clean[i].row[f])

\* the economy response was merged and its seatmap cached, the premium economy
\* search was answered 429 and is about to be retried
C30_Witness ==
    /\ pc = "search" /\ cabin_i = 2 /\ attempt = 1
    /\ last_search = [day |-> 0, cabin |-> _CABINS[2], status |-> "429"]
    /\ Len(day_payloads) = 1
    /\ Len(per_flight) = 1
    /\ per_flight[1].row.economyMax = Some(5)
    /\ carriers_for_day = carriers_AA
    /\ DOMAIN seatmap_cache = {flight_key_of(oA5)}

\* ---------------------------------------------------------------------------
\* C31  an offer rejected by the cabin filter changes nothing
\* ---------------------------------------------------------------------------

\* one day with seatmaps on: AA100 offered with no declared cabin (5 seats) and
\* declaring ECONOMY only (2 seats nested), under dictionaries naming AA two ways
RejectOffers == {oA5, oA7n2}
RejectCarriers == {carriers_AA, carriers_AA_Br}

InitReject ==
    /\ backoff_initial_s = 1
    /\ include_seatmaps = TRUE
    /\ on_date = FALSE
    /\ InitState
    /\ end_date \in {-1, 0}
    /\ retries = 0
    /\ include_tightness = TRUE

NextReject ==
    \/ Driver
    \/ \E data \in SeqsUpTo(RejectOffers, MaxSeatOffers - n_offers(day_payloads)),
          carriers \in RejectCarriers : SearchReturns(data, carriers)

SpecReject == InitReject /\ [][NextReject]_vars

\* the offer declares cabins and the queried cabin is not among them
CabinRejected(o, c) == DeclaredCabins(o) # {} /\ c \notin DeclaredCabins(o)

\* C31: the step that takes an offer declaring cabins, the queried cabin not
\* among them, leaves the row map (no row created, no seen flag, maximum,
\* tightness result or airline name changed), the carrier dictionary, the
\* seatmap cache and the list of seatmap fetches as they were.
C31_RejectedOfferChangesNothing ==
    [][(MergeStep /\ CabinRejected(Head(offers), cabin)) =>
            /\ per_flight' = per_flight
            /\ carriers_for_day' = carriers_for_day
            /\ seatmap_cache' = seatmap_cache
            /\ seatmap_calls' = seatmap_calls
            /\ rows' = rows]_vars

\* the economy query made the row (5 seats, named by the first dictionary); the
\* premium economy response renamed AA and held the ECONOMY-only offer with 2
\* seats: the row keeps its name, its tightness minimum of 5 and its one fetch
C31_Witness ==
    /\ ResponseMerged
    /\ Len(day_payloads) = 2
    /\ day_payloads[1].data = <<oA5>> /\ day_payloads[1].carriers = carriers_AA
    /\ day_payloads[2].data = <<oA7n2>> /\ day_payloads[2].carriers = carriers_AA_Br
    /\ carriers_for_day = carriers_AA_Br
    /\ Len(per_flight) = 1
    /\ per_flight[1].row.airline = s_Am
    /\ per_flight[1].row.tightnessMinBookable = Some(5)
    /\ ~per_flight[1].row.premiumEconomySeen
    /\ seatmap_calls = <<flight_key_of(oA5)>>

\* ---------------------------------------------------------------------------
\* C32  every row has a seen flag
\* ---------------------------------------------------------------------------

\* C32: every row, in the day's map and in the output, has at least one of its
\* four cabin seen flags set: the step that adds a row to the map takes an
\* accepted offer and leaves the new row with the queried cabin's flag set.
C32_RowHasSeenFlag ==
    /\ [](\A r \in DayRows \cup SeqToSet(rows) : \E c \in CabinSet : r[seen_key(c)])
    /\ [][Len(per_flight') > Len(per_flight) =>
            /\ MergeStep
            /\ offer_accepted(Head(offers), cabin)
            /\ Len(per_flight') = Len(per_flight) + 1
            /\ per_flight'[Len(per_flight')].key = offer_key(Head(offers))
            /\ per_flight'[Len(per_flight')].row[seen_key(cabin)]]_vars

\* the only offer of the day came with the FIRST response and had no seat
\* count: the emitted row has no maximum at all and the one flag firstSeen
C32_Witness ==
    /\ pc = "returned"
    /\ Len(rows) = 1
    /\ day_payloads[4].data = <<oA0>>
    /\ rows[1].firstSeen /\ rows[1].firstMax = None
    /\ ~rows[1].economySeen /\ ~rows[1].premiumEconomySeen /\ ~rows[1].businessSeen

\* ---------------------------------------------------------------------------
\* C33  the tightness minimum is bounded by every cabin maximum
\* ---------------------------------------------------------------------------

\* C33: with tightness enabled, a row with a non-null maximum for some cabin
\* has a non-null tightnessMinBookable that is at most 9 and at most that
\* maximum, in the day's map and in the output.
C33_TightnessBelowCabinMax ==
    [](include_tightness =>
        \A r \in DayRows \cup SeqToSet(rows) : \A c \in CabinSet :
            r[max_key(c)] # None =>
                /\ r.tightnessMinBookable # None
                /\ r.tightnessMinBookable[1] <= Min({9, r[max_key(c)][1]}))

\* 5 seats in the economy response and 3 in the business response: the
\* tightness minimum is 3, below both maxima
C33_Witness ==
    /\ ResponseMerged
    /\ Len(day_payloads) = 3
    /\ day_payloads[1].data = <<oA5>> /\ day_payloads[3].data = <<oA3>>
    /\ Len(per_flight) = 1
    /\ per_flight[1].row.economyMax = Some(5)
    /\ per_flight[1].row.businessMax = Some(3)
    /\ per_flight[1].row.tightnessMinBookable = Some(3)

\* ---------------------------------------------------------------------------
\* C34  the order of the offers inside a response
\* ---------------------------------------------------------------------------

\* AA200 at 08:00: the sort key of AA100
oA200tie == Offer(<< <<Seg(None, Some(s_AA), Some(s_200), Some(s_dep0800))>> >>,
                  JInt(6), <<>>)

\* one day without seatmaps: one flight with a larger, a smaller and no seat
\* count, a flight with the same sort key, a flight of another airline
OrderOffers == {oA5, oA3, oA0, oA200tie, oB9}

InitOrder ==
    /\ Defaults
    /\ InitState
    /\ end_date \in {-1, 0}
    /\ retries = 0
    /\ include_tightness = TRUE

NextOrder ==
    \/ Driver
    \/ \E data \in SeqsUpTo(OrderOffers, MaxSortOffers - n_offers(day_payloads)),
          carriers \in AggCarriers : SearchReturns(data, carriers)

SpecOrder == InitOrder /\ [][NextOrder]_vars

\* the orders a sequence of n elements can be put in
Perms(n) == {p \in [1..n -> 1..n] : \A i, j \in 1..n : p[i] = p[j] => i = j}
permute(s, p) == [i \in 1..Len(s) |-> s[p[i]]]

\* the row values: cabin maxima, seen flags, tightness triple, airline name
ValueFields ==
    {"economyMax", "premiumEconomyMax", "businessMax", "firstMax",
     "economySeen", "premiumEconomySeen", "businessSeen", "firstSeen",
     "tightnessMinBookable", "tightnessScore", "tightnessLabel", "airline"}
row_values(pf) ==
    {<<pf[i].key, [f \in ValueFields |-> pf[i].row[f]]>> : i \in 1..Len(pf)}

\* the row map of the day had the last response held its offers as data
merged_with_last_as(data) ==
    LET n == Len(day_payloads) IN
    clean_day(Append(SubSeq(day_payloads, 1, n - 1), [day_payloads[n] EXCEPT !.data = data]),
              <<>>, <<>>, day, include_tightness)

\* the sort keys of the rows in emission order
emission_keys(pf) ==
    LET out == sorted_rows(pf, <<>>) IN
    [i \in 1..Len(out) |-> <<out[i].airlineCode, out[i].departureAt>>]

\* C34: without seatmaps, once a response is merged the map from flight key to
\* row values is the one every other order of the response's offers would have
\* given, and the emission order would carry the same (airlineCode,
\* departureAt) at every position: only rows with equal sort keys can change
\* places.
C34_OrderIndependence ==
    (ResponseMerged /\ ~include_seatmaps) =>
        LET data == day_payloads[Len(day_payloads)].data IN
        \A p \in Perms(Len(data)) :
            LET other == merged_with_last_as(permute(data, p)) IN
            /\ row_values(other) = row_values(per_flight)
            /\ emission_keys(other) = emission_keys(per_flight)

\* AA200 and AA100, both at 08:00, came in this order in the economy response
\* and would be emitted in it; the other order would emit AA100 first
C34_Witness ==
    /\ ResponseMerged
    /\ day_payloads = <<[cabin |-> "ECONOMY", carriers |-> carriers_BA,
                         data |-> <<oA200tie, oA5>>]>>
    /\ sorted_rows(per_flight, <<>>)[1].flight = s_AA \o s_200
    /\ sorted_rows(merged_with_last_as(<<oA5, oA200tie>>), <<>>)[1].flight = s_AA \o s_100

\* ---------------------------------------------------------------------------
\* C35  a reversed date range
\* ---------------------------------------------------------------------------

\* main.py lines 179-180: the /check endpoint refuses a reversed range
CheckRejects ==
    /\ pc = "check"
    /\ end_date < start_date
    /\ pc' = "raised"
    /\ error' = Some("HTTP 400")
    /\ returned' = None
    /\ UNCHANGED <<config, ui, on_date_log, idx, day, cabin_i, attempt, backoff, offers,
                   per_flight, carriers_for_day, rows, day_payloads, sleeps, last_search,
                   calls, seat>>

\* main.py lines 19-25 and 182: the credentials are missing from the environment
CheckMissingCredentials ==
    /\ pc = "check"
    /\ end_date >= start_date
    /\ pc' = "raised"
    /\ error' = Some("HTTP 500")
    /\ returned' = None
    /\ UNCHANGED <<config, ui, on_date_log, idx, day, cabin_i, attempt, backoff, offers,
                   per_flight, carriers_for_day, rows, day_payloads, sleeps, last_search,
                   calls, seat>>

\* main.py lines 183-195: the endpoint calls the driver
CheckCallsDriver ==
    /\ pc = "check"
    /\ end_date >= start_date
    /\ pc' = "iter"
    /\ UNCHANGED <<config, ui, on_date_log, idx, day, cabin_i, attempt, backoff, offers,
                   per_flight, carriers_for_day, rows, returned, error, day_payloads,
                   sleeps, last_search, calls, seat>>

\* a request to /check (no callback, no seatmaps, the default retries) or a
\* direct call of the driver, with or without a callback; ranges of 0 days,
\* reversed, and of one day
InitRange ==
    /\ InitApp
    /\ pc \in {"check", "iter"}
    /\ start_date = 0
    /\ end_date \in {-2, -1, 0}
    /\ backoff_initial_s = 1
    /\ include_seatmaps = FALSE
    /\ include_tightness = TRUE
    /\ on_date \in IF pc = "check" THEN {FALSE} ELSE BOOLEAN
    /\ retries = IF pc = "check" THEN DefaultRetries ELSE 1
    /\ idx = 0
    /\ day = start_date
    /\ cabin_i = 1
    /\ attempt = 0
    /\ backoff = backoff_initial_s
    /\ offers = <<>>
    /\ per_flight = <<>>
    /\ carriers_for_day = <<>>
    /\ rows = <<>>
    /\ returned = None
    /\ error = None
    /\ day_payloads = <<>>
    /\ sleeps = <<>>
    /\ last_search = [day |-> 0, cabin |-> "", status |-> "none"]
    /\ calls = 0
    /\ seatmap_cache = <<>>
    /\ seatmap_calls = <<>>
    /\ on_date_log = <<>>

NextRange ==
    \/ NextRetry
    \/ CheckRejects
    \/ CheckMissingCredentials
    \/ CheckCallsDriver

SpecRange == InitRange /\ [][NextRange]_vars

\* C35: with an end date before the start date no search is ever issued, the
\* callback is never called and no row is produced; the request's one step
\* fails it, the driver with ValueError and the /check endpoint, which does not
\* reach the driver, with HTTP 400, and the caller receives no rows.
C35_ReversedRangeFails ==
    /\ [](end_date < start_date =>
            /\ last_search.status = "none" /\ calls = 0 /\ day_payloads = <<>>
            /\ on_date_log = <<>>
            /\ rows = <<>> /\ returned = None
            /\ pc \in {"check", "iter", "raised"}
            /\ pc = "raised" => error \in {Some("ValueError"), Some("HTTP 400")})
    /\ [][(end_date < start_date /\ pc = "iter") =>
            pc' = "raised" /\ error' = Some("ValueError")]_vars
    /\ [][(end_date < start_date /\ pc = "check") =>
            pc' = "raised" /\ error' = Some("HTTP 400")]_vars

\* the driver was called with a callback and a range ending two days before
\* its start: it raised ValueError, with no call of the callback and no search
C35_Witness ==
    /\ end_date = -2 /\ on_date
    /\ pc = "raised" /\ error = Some("ValueError")
    /\ on_date_log = <<>>
    /\ last_search.status = "none"
    /\ returned = None

\* ---------------------------------------------------------------------------
\* The desktop application (seats_watch_ui.py): the UI thread runs _on_run and
\* _poll_events, each worker thread runs worker()
\* ---------------------------------------------------------------------------

\* calls of _on_run in a session
MaxRunRequests == 3

\* the driver handles (end_date, start_date, parameters) of the runs are the
\* form's; a worker sees of its driver call the callbacks, the return and the
\* exception
driver == <<config, pc, idx, day, cabin_i, attempt, backoff, offers, per_flight,
            carriers_for_day, seat, rows, returned, error, day_payloads, sleeps,
            last_search, calls, on_date_log>>

\* the form as _on_run reads it: rejected by one of the tests of lines 264-285,
\* or a range of `total` days
RunInputs ==
    {[valid |-> FALSE, total |-> 0]} \cup {[valid |-> TRUE, total |-> t] : t \in 1..(MaxDay + 1)}

Event(kind, run, payload) == [kind |-> kind, run |-> run, payload |-> payload]

\* Thread.is_alive(): started and its function not yet returned
is_alive(w) == w.pc # "exited"

\* line 255: self._worker is not None and self._worker.is_alive()
worker_alive == workers # <<>> /\ is_alive(workers[Len(workers)])

\* a variant of OnRun without the test of line 255
OnRun_unguarded(input) ==
    /\ run_btn = "normal"
    /\ run_requests < MaxRunRequests
    /\ run_requests' = run_requests + 1
    /\ IF ~input.valid
       THEN /\ _events' = Append(_events, Event("error", 0, "input"))
            /\ posted' = Append(posted, Event("error", 0, "input"))
            /\ UNCHANGED <<workers, run_btn, table, handled>>
       ELSE /\ table' = <<>>
            /\ run_btn' = "disabled"
            /\ workers' = Append(workers, [pc |-> "driver", idx |-> 0, total |-> input.total])
            /\ UNCHANGED <<_events, posted, handled>>
    /\ UNCHANGED driver

\* _on_run (lines 254-316), the command of the Run button: a disabled button
\* does not call it
OnRun(input) ==
    /\ run_btn = "normal"
    /\ run_requests < MaxRunRequests
    /\ run_requests' = run_requests + 1
    /\ IF worker_alive
       THEN UNCHANGED <<workers, _events, run_btn, table, posted, handled>>
       ELSE IF ~input.valid
       THEN /\ _events' = Append(_events, Event("error", 0, "input"))
            /\ posted' = Append(posted, Event("error", 0, "input"))
            /\ UNCHANGED <<workers, run_btn, table, handled>>
       ELSE /\ table' = <<>>
            /\ run_btn' = "disabled"
            /\ workers' = Append(workers, [pc |-> "driver", idx |-> 0, total |-> input.total])
            /\ UNCHANGED <<_events, posted, handled>>
    /\ UNCHANGED driver

\* lines 294-295: the driver calls on_date for the next day of the range
WorkerOnDate(r) ==
    /\ workers[r].pc = "driver"
    /\ workers[r].idx < workers[r].total
    /\ LET ev == Event("progress", r, <<workers[r].idx, workers[r].total>>) IN
       /\ _events' = Append(_events, ev)
       /\ posted' = Append(posted, ev)
    /\ workers' = [workers EXCEPT ![r].idx = @ + 1]
    /\ UNCHANGED <<driver, run_btn, table, handled, run_requests>>

\* line 310: the driver returned after the last day
WorkerReturns(r) ==
    /\ workers[r].pc = "driver"
    /\ workers[r].idx = workers[r].total
    /\ _events' = Append(_events, Event("done_rows", r, "rows"))
    /\ posted' = Append(posted, Event("done_rows", r, "rows"))
    /\ workers' = [workers EXCEPT ![r].pc = "posted"]
    /\ UNCHANGED <<driver, run_btn, table, handled, run_requests>>

\* lines 311-313: the driver raised, on any day
WorkerRaises(r) ==
    /\ workers[r].pc = "driver"
    /\ _events' = Append(_events, Event("exception", r, "details"))
    /\ posted' = Append(posted, Event("exception", r, "details"))
    /\ workers' = [workers EXCEPT ![r].pc = "posted"]
    /\ UNCHANGED <<driver, run_btn, table, handled, run_requests>>

\* worker() returns and the thread ends
WorkerExits(r) ==
    /\ workers[r].pc = "posted"
    /\ workers' = [workers EXCEPT ![r].pc = "exited"]
    /\ UNCHANGED <<driver, _events, run_btn, table, posted, handled, run_requests>>

\* lines 322-394: what one event does to the button and the table
RECURSIVE poll(_, _, _)
poll(queue, btn, tbl) ==
    IF queue = <<>> THEN [run_btn |-> btn, table |-> tbl]
    ELSE LET ev == Head(queue) IN
         IF ev.kind = "progress" THEN poll(Tail(queue), btn, tbl)
         ELSE IF ev.kind = "done_rows" THEN poll(Tail(queue), "normal", Append(tbl, ev.run))
         ELSE poll(Tail(queue), "normal", tbl)

\* _poll_events (lines 318-397), every 100 ms: the queue is read until empty
PollEvents ==
    /\ _events # <<>>
    /\ LET after == poll(_events, run_btn, table) IN
       /\ run_btn' = after.run_btn
       /\ table' = after.table
    /\ handled' = handled \o _events
    /\ _events' = <<>>
    /\ UNCHANGED <<driver, workers, posted, run_requests>>

\* the application as started; the form holds a one-day range, the seatmaps box
\* is not ticked, and the driver is given the worker's on_date (lines 297-308)
InitUI ==
    /\ backoff_initial_s = 1
    /\ include_seatmaps = FALSE
    /\ on_date = TRUE
    /\ InitState
    /\ end_date = 0
    /\ retries = DefaultRetries
    /\ include_tightness = TRUE

NextUI ==
    \/ \E input \in RunInputs : OnRun(input)
    \/ \E r \in 1..Len(workers) : WorkerOnDate(r)
    \/ \E r \in 1..Len(workers) : WorkerReturns(r)
    \/ \E r \in 1..Len(workers) : WorkerRaises(r)
    \/ \E r \in 1..Len(workers) : WorkerExits(r)
    \/ PollEvents

SpecUI == InitUI /\ [][NextUI]_vars

AliveWorkers == {r \in 1..Len(workers) : is_alive(workers[r])}

\* the events a step puts on the queue
NewlyPosted == {posted'[i] : i \in (Len(posted) + 1)..Len(posted')}

\* C36: at most one worker thread is alive at any time; a call of _on_run made
\* while the worker is alive starts no worker, leaves the results table as it
\* is and puts no event on the queue.
C36_OneWorker ==
    /\ [](Cardinality(AliveWorkers) <= 1)
    /\ [][(worker_alive /\ run_requests' # run_requests) =>
            /\ workers' = workers
            /\ table' = table
            /\ _events' = _events /\ posted' = posted
            /\ run_btn' = run_btn]_vars

\* Run was pressed while the first worker was still in the driver: there is
\* one worker, its progress event is in the queue and nothing else happened
C36_Witness ==
    /\ run_requests = 3
    /\ Len(workers) = 1 /\ workers[1].pc = "driver"
    /\ run_btn = "normal"
    /\ handled = <<Event("error", 0, "input")>>
    /\ _events = <<Event("progress", 1, <<0, 1>>)>>

\* ---------------------------------------------------------------------------
\* C37  the worker's terminal event and the Run button
\* ---------------------------------------------------------------------------

Terminal(ev) == ev.kind \in {"done_rows", "exception"}

\* positions in the log of the events of run r
EventsOf(log, r) == {i \in 1..Len(log) : log[i].run = r}

\* the terminal event of run r has been processed by _poll_events
TerminalHandled(r) == \E i \in EventsOf(handled, r) : Terminal(handled[i])

\* C37: every worker that has left the driver has put exactly one terminal
\* event on the queue ("done_rows" after a progress event for every day of the
\* range, or "exception"), a worker still in the driver none, and no event of a
\* worker follows its terminal event; and from the start of a run until
\* _poll_events has processed the run's terminal event the Run button is
\* disabled.
C37_TerminalEventAndButton ==
    /\ [](\A r \in 1..Len(workers) :
            LET mine == EventsOf(posted, r)
                term == {i \in mine : Terminal(posted[i])}
            IN  /\ Cardinality(term) = (IF workers[r].pc = "driver" THEN 0 ELSE 1)
                /\ \A i \in term : \A j \in mine : j <= i
                /\ \A i \in term : posted[i].kind = "done_rows" =>
                      Cardinality(mine) = workers[r].total + 1)
    /\ [](\A r \in 1..Len(workers) : ~TerminalHandled(r) => run_btn = "disabled")

\* ---------------------------------------------------------------------------
\* C38  the key of the seatmap cache
\* ---------------------------------------------------------------------------

\* flight A100 of carrier "A" at 08:00: operating code and number concatenate
\* to the flight id of AA100
oShortCode == Offer(<< <<Seg(None, Some(s_A), Some(s_A100), Some(s_dep0800))>> >>,
                    JInt(4), <<>>)

CacheOffers == {oA5, oShortCode}

\* one day with seatmaps on
InitCache ==
    /\ backoff_initial_s = 1
    /\ include_seatmaps = TRUE
    /\ on_date = FALSE
    /\ InitState
    /\ end_date \in {-1, 0}
    /\ retries = 0
    /\ include_tightness = TRUE

NextCache ==
    \/ Driver
    \/ \E data \in SeqsUpTo(CacheOffers, MaxSeatOffers - n_offers(day_payloads)),
          carriers \in DriverCarriers : SearchReturns(data, carriers)

SpecCache == InitCache /\ [][NextCache]_vars

\* (operating carrier, flight number, departure timestamp) of an accepted offer
identity_of(offer) ==
    <<_offer_operating_carrier_code(offer)[1], first_segments(offer)[1].number[1],
      first_segments(offer)[1].at[1]>>

\* C38: with seatmaps on, the rows of a day are rows of different flights, each
\* with a cache entry of its own: no two rows have the same cache key, every
\* row had its own fetch, and the accepted offers that read one cache entry all
\* have the same operating carrier, flight number and departure timestamp.
C38_SeatmapOfOwnFlight ==
    include_seatmaps =>
        /\ \A i, j \in 1..Len(per_flight) :
              i # j => per_flight[i].key[2] # per_flight[j].key[2]
        /\ Len(seatmap_calls) = Len(per_flight)
        /\ \A p, q \in AcceptedPairs :
              flight_key_of(p[2]) = flight_key_of(q[2]) => identity_of(p[2]) = identity_of(q[2])

====
